---- MODULE Spec2Model ----
(***************************************************************************)
(* Aullevo form filler: the page-context form machinery                    *)
(* (src/src/services/formAnalyzer.ts, src/src/content/content.ts) and the  *)
(* popup's multi-step driver (src/src/popup/Popup.tsx).                    *)
(*                                                                         *)
(* JavaScript values are modelled as strings.  Three tokens stand for the  *)
(* non-string values the code can meet: Undef (undefined / absent          *)
(* property), JSTrue and JSFalse (the booleans).  A page is a sequence of   *)
(* element records in document order; parent = 0 is document.body.         *)
(***************************************************************************)
EXTENDS Integers, Sequences, FiniteSets, TLC

VARIABLES
    dom,          \* the page: sequence of element records, document order
    pageLog,      \* what the page context did for the last request it handled
    pc,           \* position of the popup's driver
    step,         \* argument `step` of the current processFormStep call
    isProcessing, \* React state isProcessing (the running flag)
    status,       \* React state status: [type, msg, detail]
    apiKey,       \* React state apiKey
    envKey,       \* import.meta.env.VITE_GEMINI_API_KEY (fixed per build)
    fieldMappings,\* local fieldMappings of processFormStep
    ansIdx,       \* position of the for..of loop over fieldMappings
    chan,         \* the request or call the driver awaits
    run,          \* history of the current run (requests sent, outcome)
    fcall         \* record of a function called directly (fillFormField, extractJSON)

vars == <<dom, pageLog, pc, step, isProcessing, status, apiKey, envKey,
          fieldMappings, ansIdx, chan, run, fcall>>

----------------------------------------------------------------------------
(* JavaScript values *)

Undef == "#undefined"
JSTrue == "#true"
JSFalse == "#false"

\* typeof v === 'string'
IsString(v) == v \notin {Undef, JSTrue, JSFalse}

\* JavaScript truthiness of a value: if (v) ...
Truthy(v) == v \notin {Undef, JSFalse, ""}

\* String.prototype.toLowerCase on the strings the model uses
toLowerCase(s) ==
    CASE s = "US" -> "us"
      [] s = "Us" -> "us"
      [] s = "CA" -> "ca"
      [] s = "Canada" -> "canada"
      [] s = "United States" -> "united states"
      [] s = "Quebec" -> "quebec"
      [] s = "Female" -> "female"
      [] s = "FEMALE" -> "female"
      [] s = "Male" -> "male"
      [] s = "True" -> "true"
      [] s = "Jane" -> "jane"
      [] s = "Next" -> "next"
      [] s = "Back" -> "back"
      [] s = "Preview" -> "preview"
      [] s = "Proceed" -> "proceed"
      [] s = "Review" -> "review"
      [] s = "Continue" -> "continue"
      [] s = "Finish Application" -> "finish application"
      [] s = "Add Experience" -> "add experience"
      [] s = "Next page of results" -> "next page of results"
      [] OTHER -> s

\* String(value) as the first listener applies it to a profile value
String(v) ==
    CASE v = JSTrue -> "true"
      [] v = JSFalse -> "false"
      [] v = Undef -> "undefined"
      [] OTHER -> v

----------------------------------------------------------------------------
(* The page *)

\* An element of the page.  tag: "input" | "select" | "textarea" | "button" |
\* "div"; type: the input's type; options: <<[value, text]>> of a select;
\* sel: selectedIndex of a select (0 = none); modal: the element matches one
\* of the modal selectors; display / visibility / opacity / position: the
\* element's own computed style; parent: index of the enclosing element.
Elem(tag, type, id, name, text, parent) ==
    [tag |-> tag, type |-> type, id |-> id, name |-> name, text |-> text,
     aria |-> "", value |-> "", checked |-> FALSE, options |-> <<>>, sel |-> 0,
     modal |-> FALSE, display |-> "block", visibility |-> "visible",
     opacity |-> 1, position |-> "static", parent |-> parent]

RECURSIVE Ancestors(_, _)
\* indexes of the proper ancestors of element i (0, document.body, excluded)
Ancestors(d, i) ==
    IF d[i].parent = 0 THEN {}
    ELSE {d[i].parent} \cup Ancestors(d, d[i].parent)

\* element.offsetParent === null: the element or an ancestor is display:none,
\* or the element itself is position:fixed
offsetParentNull(d, i) ==
    \/ d[i].display = "none"
    \/ \E a \in Ancestors(d, i) : d[a].display = "none"
    \/ d[i].position = "fixed"

\* computed visibility is inherited from the nearest ancestor that sets it
computedVisibility(d, i) ==
    IF d[i].visibility = "hidden" \/ \E a \in Ancestors(d, i) : d[a].visibility = "hidden"
    THEN "hidden" ELSE "visible"

\* (mutant: the opacity of the element is not looked at)
isVisibleAnyOpacity(d, i) ==
    IF offsetParentNull(d, i) /\ d[i].position # "fixed" THEN FALSE
    ELSE /\ d[i].display # "none"
         /\ computedVisibility(d, i) # "hidden"

\* isVisible(element)
isVisible(d, i) ==
    IF offsetParentNull(d, i) /\ d[i].position # "fixed" THEN FALSE
    ELSE /\ d[i].display # "none"
         /\ computedVisibility(d, i) # "hidden"
         /\ d[i].opacity > 0

RECURSIVE InOrder(_)
\* the indexes of S in ascending (document) order, as a NodeList
InOrder(S) ==
    IF S = {} THEN <<>>
    ELSE LET m == CHOOSE x \in S : \A y \in S : x <= y
         IN <<m>> \o InOrder(S \ {m})

\* (mutant: the last potential modal is taken, visible or not)
findActiveModalUnfiltered(d) ==
    LET potentials == {i \in 1..Len(d) : d[i].modal}
        visibleModals == InOrder(potentials)
    IN IF Len(visibleModals) = 0 THEN 0
       ELSE visibleModals[Len(visibleModals)]

\* findActiveModal(): 0 stands for null
findActiveModal(d) ==
    LET potentials == {i \in 1..Len(d) : d[i].modal}
        visibleModals == InOrder({i \in potentials : isVisible(d, i)})
    IN IF Len(visibleModals) = 0 THEN 0
       ELSE visibleModals[Len(visibleModals)]

\* (mutant: the query is made on the whole document)
InRootAnywhere(d, root, i) == TRUE

\* root.querySelectorAll restricted to descendants of root (0 = document.body)
InRoot(d, root, i) == root = 0 \/ root \in Ancestors(d, i)

----------------------------------------------------------------------------
(* Field Filler: formAnalyzer.ts fillFormField and its helpers *)

\* smallest member of a non-empty set of indexes, 0 for the empty set
First(S) == IF S = {} THEN 0 ELSE CHOOSE x \in S : \A y \in S : x <= y

\* document.getElementById(id): first element in document order, 0 = null
getElementById(d, id) == First({i \in 1..Len(d) : d[i].id = id /\ id # ""})

\* document.querySelector('[name="..."]'): first element carrying that name
querySelectorName(d, name) == First({i \in 1..Len(d) : d[i].name = name /\ name # ""})

\* (mutant: the target is looked up among the visible elements of the scope)
locateInScope(d, m) ==
    LET inScope == {i \in 1..Len(d) : InRoot(d, findActiveModal(d), i) /\ isVisible(d, i)}
        byId == First({i \in inScope : d[i].id = m.id /\ Truthy(m.id)})
    IN IF byId = 0
       THEN First({i \in inScope : d[i].name = m.name /\ Truthy(m.name)})
       ELSE byId

\* (mutant: the name is tried before the identifier)
locateByNameFirst(d, m) ==
    LET byName == IF Truthy(m.name) THEN querySelectorName(d, m.name) ELSE 0
    IN IF byName = 0 /\ Truthy(m.id) THEN getElementById(d, m.id) ELSE byName

\* the element fillFormField works on (0 = null)
locate(d, m) ==
    LET byId == IF Truthy(m.id) THEN getElementById(d, m.id) ELSE 0
    IN IF byId = 0 /\ Truthy(m.name) THEN querySelectorName(d, m.name) ELSE byId

\* r.checked = true on a radio: the other radios of its group are unchecked
setRadioChecked(d, r) ==
    [i \in 1..Len(d) |->
        IF i = r THEN [d[i] EXCEPT !.checked = TRUE]
        ELSE IF /\ d[i].tag = "input" /\ d[i].type = "radio"
                /\ d[r].name # "" /\ d[i].name = d[r].name
             THEN [d[i] EXCEPT !.checked = FALSE]
             ELSE d[i]]

\* option matched by the loop of fillSelect (0 = none)
selectMatch(opts, value) ==
    First({k \in 1..Len(opts) :
              \/ toLowerCase(opts[k].value) = toLowerCase(value)
              \/ toLowerCase(opts[k].text) = toLowerCase(value)})

\* fillSelect: [dom, threw]
fillSelect(d, i, value) ==
    LET opts == d[i].options
    IN IF Len(opts) > 0 /\ ~IsString(value)
       THEN [dom |-> d, threw |-> TRUE]   \* value.toLowerCase is not a function
       ELSE LET k == selectMatch(opts, value)
            IN IF k = 0 THEN [dom |-> d, threw |-> FALSE]
               ELSE \* select.value = option.value picks the first option with that value
                    LET j == First({x \in 1..Len(opts) : opts[x].value = opts[k].value})
                    IN [dom |-> [d EXCEPT ![i].sel = j], threw |-> FALSE]

RECURSIVE radioLoop(_, _, _)
\* radios.forEach of fillRadio over the index sequence rs
radioLoop(d, rs, value) ==
    IF rs = <<>> THEN d
    ELSE LET r == Head(rs)
             d1 == IF toLowerCase(d[r].value) = toLowerCase(value)
                   THEN setRadioChecked(d, r) ELSE d
         IN radioLoop(d1, Tail(rs), value)

\* (mutant: the located radio itself is checked when its value matches)
fillRadioTargetOnly(d, i, value) ==
    IF ~IsString(value) THEN [dom |-> d, threw |-> TRUE]
    ELSE [dom |-> radioLoop(d, <<i>>, value), threw |-> FALSE]

\* fillRadio: [dom, threw]
fillRadio(d, i, value) ==
    LET name == d[i].name
        radios == InOrder({r \in 1..Len(d) :
                      /\ d[r].tag = "input" /\ d[r].type = "radio"
                      /\ name # "" /\ d[r].name = name})
    IN IF Len(radios) > 0 /\ ~IsString(value)
       THEN [dom |-> d, threw |-> TRUE]   \* value.toLowerCase is not a function
       ELSE [dom |-> radioLoop(d, radios, value), threw |-> FALSE]

\* triggerEvents: the notifications the target receives, in order
triggerEvents(d, i) ==
    <<"input", "change", "blur", "keyup">>
    \o (IF d[i].tag = "input" THEN <<"nativeValueSetter", "input">> ELSE <<>>)

\* (mutant: any truthy value checks the box)
checkedForTruthy(value) == Truthy(value)

\* value === 'true' || value === true
checkedFor(value) == value = "true" \/ value = JSTrue

\* (mutant: the value is appended to what the control holds)
assignAppending(d, input, value) ==
    [dom |-> [d EXCEPT ![input].value = @ \o String(value)], threw |-> FALSE]

\* the assignment branch of fillFormField on the located element: [dom, threw]
assign(d, input, value) ==
    IF d[input].tag = "select" THEN fillSelect(d, input, value)
    ELSE IF d[input].tag = "input" THEN
         IF d[input].type = "checkbox"
         THEN [dom |-> [d EXCEPT ![input].checked = checkedFor(value)],
               threw |-> FALSE]
         ELSE IF d[input].type = "radio" THEN fillRadio(d, input, value)
         ELSE [dom |-> [d EXCEPT ![input].value = String(value)], threw |-> FALSE]
    ELSE IF d[input].tag = "textarea"
         THEN [dom |-> [d EXCEPT ![input].value = String(value)], threw |-> FALSE]
    ELSE [dom |-> d, threw |-> FALSE]

\* the tail of fillFormField: triggerEvents(input); return true
assigned(r, input) ==
    IF r.threw
    THEN [dom |-> r.dom, ret |-> "throw", target |-> input, events |-> <<>>]
    ELSE [dom |-> r.dom, ret |-> "true", target |-> input,
          events |-> triggerEvents(r.dom, input)]

\* (mutant: a target that is not found raises)
fillLocatedOrThrow(d, input, value) ==
    IF input = 0
    THEN [dom |-> d, ret |-> "throw", target |-> 0, events |-> <<>>]
    ELSE assigned(assign(d, input, value), input)

\* fillFormField once the target is looked up (0 = null)
fillLocated(d, input, value) ==
    IF input = 0
    THEN [dom |-> d, ret |-> "false", target |-> 0, events |-> <<>>]
    ELSE assigned(assign(d, input, value), input)

\* fillFormField(fieldIdentifier, value): ret is "true", "false" or "throw"
fillFormField(d, m, value) == fillLocated(d, locate(d, m), value)

----------------------------------------------------------------------------
(* Field Extractor and Navigation Detector: formAnalyzer.ts *)

\* extractFormFields(): the FormField snapshot (el: the control it was read from)
extractFormFields(d) ==
    LET rootElement == findActiveModal(d)
        inputs == InOrder({i \in 1..Len(d) :
                      /\ d[i].tag \in {"input", "textarea", "select"}
                      /\ InRoot(d, rootElement, i)})
        kept == SelectSeq([k \in 1..Len(inputs) |-> k],
                    LAMBDA k :
                        /\ isVisible(d, inputs[k])
                        /\ ~(d[inputs[k]].tag = "input"
                             /\ d[inputs[k]].type \in {"hidden", "submit", "button"}))
    IN [n \in 1..Len(kept) |->
          LET k == kept[n]
              input == d[inputs[k]]
          IN [id |-> IF input.id # "" THEN input.id ELSE "field_" \o ToString(k - 1),
              name |-> input.name,
              type |-> IF input.tag = "input" THEN input.type ELSE input.tag,
              el |-> inputs[k]]]

\* String.prototype.trim on the strings the model uses
trim(s) == CASE s = " Next " -> "Next" [] OTHER -> s

\* String.prototype.length of the (lower-cased) button texts the model uses
length(s) ==
    CASE s = "" -> 0
      [] s = "next" -> 4
      [] s = "back" -> 4
      [] s = "review" -> 6
      [] s = "proceed" -> 7
      [] s = "continue" -> 8
      [] s = "preview" -> 7
      [] s = "finish application" -> 18
      [] s = "add experience" -> 14
      [] s = "next page of results" -> 20
      [] OTHER -> 30

\* text.includes(keyword) on the (lower-cased) button texts the model uses
includes(text, keyword) ==
    \/ text = keyword
    \/ text = "preview" /\ keyword = "review"
    \/ text = "next page of results" /\ keyword = "next"

keywords == <<"next", "continue", "proceed", "review", "submit application">>

\* (mutant: containment counts whatever the length of the text)
isNextButtonAnyLength(d, i) ==
    /\ isVisible(d, i)
    /\ LET raw == IF d[i].text # "" THEN d[i].text ELSE d[i].value
           text == toLowerCase(trim(raw))
           ariaLabel == toLowerCase(trim(d[i].aria))
       IN \E k \in 1..Len(keywords) :
             \/ text = keywords[k]
             \/ ariaLabel = keywords[k]
             \/ includes(text, keywords[k])

\* the predicate of Array.prototype.find in findNextButton
isNextButton(d, i) ==
    /\ isVisible(d, i)
    /\ LET raw == IF d[i].text # "" THEN d[i].text ELSE d[i].value
           text == toLowerCase(trim(raw))
           ariaLabel == toLowerCase(trim(d[i].aria))
       IN \E k \in 1..Len(keywords) :
             \/ text = keywords[k]
             \/ ariaLabel = keywords[k]
             \/ (includes(text, keywords[k]) /\ length(text) < 20)

\* findNextButton(): 0 stands for null/undefined
findNextButton(d) ==
    LET root == findActiveModal(d)
        buttons == {i \in 1..Len(d) :
                      /\ \/ d[i].tag = "button"
                         \/ d[i].tag = "input" /\ d[i].type \in {"submit", "button"}
                      /\ InRoot(d, root, i)}
    IN First({i \in buttons : isNextButton(d, i)})

\* (mutant: success is reported whether or not a button was found)
clickedOrNot(btn) ==
    [success |-> TRUE, message |-> "Clicked",
     activated |-> IF btn # 0 THEN <<btn>> ELSE <<>>]

\* clickNextButton() given the button found
clicked(btn) ==
    IF btn # 0
    THEN [success |-> TRUE, message |-> "Clicked", activated |-> <<btn>>]
    ELSE [success |-> FALSE, message |-> "No Next button found", activated |-> <<>>]

\* clickNextButton(): activated is the sequence of controls it clicked
clickNextButton(d) == clicked(findNextButton(d))

----------------------------------------------------------------------------
(* Message Router: content.ts registers two onMessage listeners *)

\* the profile the popup sends with a fill request (Popup.tsx userData)
UserData == [firstName |-> "Jane", email |-> "jane@x.com", country |-> "US", phone |-> ""]

\* userData[key], undefined when the profile has no such property
lookup(userData, key) == IF key \in DOMAIN userData THEN userData[key] ELSE Undef

NoResponse == [success |-> FALSE, kind |-> "none"]

\* value the first listener passes to fillFormField (Undef: mapping skipped)
fillValue1(mapping, userData) ==
    LET value == lookup(userData, mapping.fieldType)
    IN IF Truthy(value) THEN String(value) ELSE Undef

\* (mutant: the profile value is preferred to the selected value)
fillValue2ProfileFirst(mapping, userData) ==
    LET value == IF mapping.fieldType \in DOMAIN userData
                 THEN String(userData[mapping.fieldType])
                 ELSE mapping.selectedValue
    IN IF Truthy(value) THEN value ELSE Undef

\* value the second listener passes to fillFormField (Undef: mapping skipped)
fillValue2(mapping, userData) ==
    LET value == IF ~Truthy(mapping.selectedValue) /\ mapping.fieldType \in DOMAIN userData
                 THEN String(userData[mapping.fieldType])
                 ELSE mapping.selectedValue
    IN IF Truthy(value) THEN value ELSE Undef

\* the accumulator of a fillForm loop after one fillFormField call
counted(acc, k, value, r) ==
    [dom |-> r.dom,
     filledCount |-> acc.filledCount + (IF r.ret = "true" THEN 1 ELSE 0),
     calls |-> Append(acc.calls, [k |-> k, value |-> value, ret |-> r.ret,
                                  target |-> r.target, events |-> r.events]),
     threw |-> r.ret = "throw"]

\* the body of the forEach callback for one mapping
fillOne(acc, mapping, k, value) ==
    IF value = Undef THEN acc
    ELSE counted(acc, k, value, fillFormField(acc.dom, mapping, value))

RECURSIVE fillLoop(_, _, _, _, _)
\* fieldMappings.forEach of a fillForm handler from mapping k on; acc is
\* [dom, filledCount, calls, threw]; an exception ends the loop
fillLoop(acc, mappings, userData, k, listener) ==
    IF k > Len(mappings) \/ acc.threw THEN acc
    ELSE fillLoop(fillOne(acc, mappings[k], k,
                          IF listener = 1 THEN fillValue1(mappings[k], userData)
                          ELSE fillValue2(mappings[k], userData)),
                  mappings, userData, k + 1, listener)

\* result of one listener invocation
Handled(d, responses, returnedTrue, calls, activated, extractions) ==
    [dom |-> d, responses |-> responses, returnedTrue |-> returnedTrue,
     calls |-> calls, activated |-> activated, extractions |-> extractions]

\* the end of a fillForm branch: sendResponse unless the loop threw
fillResponded(r, total) ==
    IF r.threw
    THEN Handled(r.dom, <<>>, FALSE, r.calls, <<>>, 0)
    ELSE Handled(r.dom,
                 <<[success |-> TRUE, kind |-> "fill", filledCount |-> r.filledCount,
                    total |-> total]>>,
                 TRUE, r.calls, <<>>, 0)

\* the fillForm branch of listener 1 or 2
fillFormHandler(d, request, listener) ==
    fillResponded(fillLoop([dom |-> d, filledCount |-> 0, calls |-> <<>>, threw |-> FALSE],
                           request.fieldMappings, request.userData, 1, listener),
                  Len(request.fieldMappings))

analyzeFormHandler(d) ==
    Handled(d, <<[success |-> TRUE, kind |-> "analyze", fields |-> extractFormFields(d)]>>,
            TRUE, <<>>, <<>>, 1)

\* first registration (content.ts lines 4-32): analyzeForm and fillForm only
onMessage1(d, request) ==
    IF request.action = "analyzeForm" THEN analyzeFormHandler(d)
    ELSE IF request.action = "fillForm" THEN fillFormHandler(d, request, 1)
    ELSE Handled(d, <<>>, TRUE, <<>>, <<>>, 0)

\* the clickNext branch: sendResponse({ success, message })
clickNextHandler(d, r) ==
    Handled(d, <<[success |-> r.success, kind |-> "advance", message |-> r.message]>>,
            TRUE, <<>>, r.activated, 0)

\* second registration (content.ts lines 38-81)
onMessage2(d, request) ==
    IF request.action = "analyzeForm" THEN analyzeFormHandler(d)
    ELSE IF request.action = "fillForm" THEN fillFormHandler(d, request, 2)
    ELSE IF request.action = "clickNext" THEN clickNextHandler(d, clickNextButton(d))
    ELSE Handled(d, <<>>, TRUE, <<>>, <<>>, 0)

\* what the sender gets and what the page did, from the two invocations
dispatched(action, h1, h2) ==
    [dom |-> h2.dom,
     response |-> IF h1.responses \o h2.responses # <<>>
                  THEN Head(h1.responses \o h2.responses) ELSE NoResponse,
     keptOpen |-> h1.returnedTrue \/ h2.returnedTrue,
     log |-> [action |-> action,
              handlers |-> 2,
              responses |-> Len(h1.responses \o h2.responses),
              calls |-> h1.calls \o h2.calls,
              activated |-> h1.activated \o h2.activated,
              extractions |-> h1.extractions + h2.extractions,
              \* the scope root extractFormFields / findNextButton resolved
              root |-> IF action \in {"analyzeForm", "clickNext"}
                       THEN findActiveModal(h2.dom) ELSE -1]]

\* the second listener runs on the page the first one left
secondListener(h1, request) == dispatched(request.action, h1, onMessage2(h1.dom, request))

\* chrome.runtime.onMessage dispatch: both listeners run, in registration
\* order, on the same request; only the first sendResponse reaches the sender
dispatch(d, request) == secondListener(onMessage1(d, request), request)

----------------------------------------------------------------------------
(* Pages and collaborator answers the model ranges over *)

Button(id, text, parent) == Elem("button", "", id, "", text, parent)

\* Scenario A: a dialog with first_name, email and a forward button, over a
\* background page that has a search box
DialogPage(buttonText) ==
    << [Elem("div", "", "dlg", "", "", 0) EXCEPT !.modal = TRUE],
       Elem("input", "text", "first_name", "first_name", "", 1),
       Elem("input", "email", "email", "email", "", 1),
       Button("", buttonText, 1),
       Elem("input", "text", "search", "q", "", 0) >>

\* a confirmation-only interstitial: no control, one forward button
ConfirmPage == << Button("", "Continue", 0) >>

\* a plain page: enumerated control, open question, repeater button
FormPage(buttonText) ==
    << [Elem("select", "", "country", "country", "", 0) EXCEPT
           !.options = << [value |-> "us", text |-> "United States"],
                          [value |-> "ca", text |-> "Canada"] >>,
           !.sel = 1],
       Elem("textarea", "", "q1", "why", "", 0),
       Button("btn_add", "Add Experience", 0),
       Button("", buttonText, 0) >>

Pages == { DialogPage("Next"), DialogPage("Finish Application"), ConfirmPage,
           FormPage("Next"), FormPage("Finish Application") }

Mapping(id, fieldType, selectedValue, originalQuestion, action) ==
    [id |-> id, name |-> Undef, fieldType |-> fieldType, selectedValue |-> selectedValue,
     originalQuestion |-> originalQuestion, action |-> action]

\* mappings the AI mapping collaborator may return
MappingPool ==
    { Mapping("first_name", "firstName", Undef, Undef, Undef),
      Mapping("country", "country", "CA", Undef, "fill"),
      Mapping("btn_add", Undef, Undef, Undef, "click_add"),
      Mapping("q1", "custom_question", Undef, "Why us?", Undef),
      Mapping("q2", "custom_question", "draft", "Salary?", Undef),
      Mapping("q3", "custom_question", "kept", "", Undef),
      Mapping("ghost", "email", Undef, Undef, Undef) }

MaxMappings == 2

RECURSIVE SeqsUpTo(_, _)
\* the sequences over S of length at most n
SeqsUpTo(S, n) ==
    IF n = 0 THEN {<<>>}
    ELSE LET shorter == SeqsUpTo(S, n - 1)
         IN shorter \cup {Append(q, x) : q \in shorter, x \in S}

\* what one generateContent call for the mapping prompt can come to:
\* the call throws; text that JSON.parse rejects; text holding a JSON object;
\* text holding a JSON array of mappings
MapOutcomes ==
    { [kind |-> k, mappings |-> <<>>] : k \in {"throw", "garbage", "object"} }
    \cup { [kind |-> "array", mappings |-> ms] : ms \in SeqsUpTo(MappingPool, MaxMappings) }

\* what one generateContent call for the answer prompt can come to
AnswerOutcomes == {"#throw", "I love it", "[MANUAL_INPUT_NEEDED]"}

\* what chrome.tabs.query can come to
TabOutcomes == {"tab", "noId", "reject"}

----------------------------------------------------------------------------
(* Step Driver: Popup.tsx *)

\* the safety limit of processFormStep: if (step > 5)
MaxSteps == 5

Status(type, msg, detail) == [type |-> type, msg |-> msg, detail |-> detail]

NoRequest == [action |-> "none", fieldMappings |-> <<>>, userData |-> UserData]

\* nothing awaited
NoChan == [kind |-> "none", state |-> "idle", request |-> NoRequest, response |-> NoResponse]

\* a chrome.tabs.sendMessage in flight to the page context
Request(action, mappings) ==
    [kind |-> action, state |-> "req",
     request |-> [action |-> action, fieldMappings |-> mappings, userData |-> UserData],
     response |-> NoResponse]

\* an awaited collaborator call or timer
Await(kind) == [kind |-> kind, state |-> "wait", request |-> NoRequest, response |-> NoResponse]

\* the run record at the start of a run
\* (history: hadKey, a credential was configured when the run was started;
\* issued, a request or collaborator call has been issued; advSent / advOk,
\* advance requests sent / answered with success; stepLog, what the current
\* step has issued so far; nFields, fields in the step's analyze response;
\* mapKind, how the step's mapping call came out; mapped, the mapping set the
\* step's mapping call returned and qa, the answer calls of the step that have
\* settled, both kept until the fill response; ansFailed, an answer call of
\* the step failed; overlap, the run was started while something was awaited)
NewRun(hadKey) ==
    [outcome |-> "running", hadKey |-> hadKey, issued |-> FALSE,
     advSent |-> 0, advOk |-> 0, stepLog |-> <<>>, nFields |-> -1, mapKind |-> "none",
     mapped |-> <<>>, qa |-> <<>>, ansFailed |-> FALSE, overlap |-> FALSE]

\* the run leaves the driver: pc idle, running flag cleared
Finish(outcome, st, r) ==
    /\ pc' = "idle"
    /\ isProcessing' = FALSE
    /\ status' = st
    /\ chan' = NoChan
    /\ run' = [r EXCEPT !.outcome = outcome]

\* (mutant: the catch block forgets the running flag)
CatchKeepingFlag(message, r) ==
    /\ pc' = "idle"
    /\ isProcessing' = isProcessing
    /\ status' = Status("error", "error", message)
    /\ chan' = NoChan
    /\ run' = [r EXCEPT !.outcome = "failed"]

\* the catch block of processFormStep / handleAIFillForm
Catch(message, r) == Finish("failed", Status("error", "error", message), r)

\* (mutant: the limit test lets one more step through)
overLimitLate(s) == s > MaxSteps + 1

\* if (step > 5)
overLimit(s) == s > MaxSteps

\* processFormStep(tabId, s) up to its first await
processFormStep(s, r) ==
    /\ step' = s
    /\ fieldMappings' = <<>>
    /\ ansIdx' = 0
    /\ IF overLimit(s)
       THEN /\ pc' = "idle"
            /\ isProcessing' = FALSE
            /\ status' = Status("info", "maxSteps", "")
            /\ chan' = NoChan
            /\ run' = [r EXCEPT !.outcome = "cap", !.stepLog = <<>>,
                                !.nFields = -1, !.mapKind = "none",
                                !.mapped = <<>>, !.qa = <<>>, !.ansFailed = FALSE]
       ELSE /\ pc' = "analyzing"
            /\ isProcessing' = isProcessing
            /\ status' = Status("info", "analyzing", ToString(s + 1))
            /\ chan' = Request("analyzeForm", <<>>)
            /\ run' = [r EXCEPT !.issued = TRUE, !.stepLog = <<"analyzeForm">>,
                                !.nFields = -1, !.mapKind = "none",
                                !.mapped = <<>>, !.qa = <<>>, !.ansFailed = FALSE]

\* the user edits the key in Settings
SetApiKey(k) ==
    /\ apiKey' = k
    /\ apiKey # k
    /\ UNCHANGED <<dom, pageLog, pc, step, isProcessing, status, envKey,
                   fieldMappings, ansIdx, chan, run, fcall>>

\* (mutant: the credential test is skipped)
hasCredentialAlways == TRUE

\* the credential test of handleAIFillForm
hasCredential == apiKey # "" \/ envKey # ""

\* (mutant: the fill button is never disabled)
buttonDisabledNever == FALSE

\* the fill button: disabled={isProcessing}
buttonDisabled == isProcessing

\* handleAIFillForm up to its first await, on a click of the fill button;
\* chromeOK: chrome.tabs exists
handleAIFillForm(chromeOK) ==
    /\ ~buttonDisabled
    /\ step' = 0
    /\ fieldMappings' = <<>>
    /\ ansIdx' = 0
    /\ IF ~chromeOK
       THEN /\ pc' = "idle"
            /\ isProcessing' = FALSE
            /\ status' = Status("error", "notExtension", "")
            /\ chan' = NoChan
            /\ run' = [NewRun(apiKey # "" \/ envKey # "") EXCEPT !.outcome = "failed"]
       ELSE IF ~hasCredential
       THEN /\ pc' = "idle"
            /\ isProcessing' = FALSE
            /\ status' = Status("error", "error", "Please set your Gemini API Key")
            /\ chan' = NoChan
            /\ run' = [NewRun(apiKey # "" \/ envKey # "") EXCEPT !.outcome = "failed"]
       ELSE /\ pc' = "query"
            /\ isProcessing' = TRUE
            /\ status' = Status("info", "starting", "")
            /\ chan' = Await("tabsQuery")
            /\ run' = [NewRun(apiKey # "" \/ envKey # "") EXCEPT !.overlap = chan # NoChan]
    /\ UNCHANGED <<dom, pageLog, apiKey, envKey, fcall>>

\* chrome.tabs.query settles; on a tab with an id processFormStep(tab.id, 0) starts
TabsQueryReturn(outcome) ==
    /\ pc = "query"
    /\ chan.kind = "tabsQuery"
    /\ IF outcome = "tab"
       THEN processFormStep(0, run)
       ELSE /\ Catch(IF outcome = "noId" THEN "No active tab found" ELSE "tabs.query failed",
                     run)
            /\ UNCHANGED <<step, fieldMappings, ansIdx>>
    /\ UNCHANGED <<dom, pageLog, apiKey, envKey, fcall>>

\* geminiService.analyzeFormFields: what the driver's fieldMappings becomes;
\* iterable is FALSE when JSON.parse gave something for..of cannot walk
analyzeFormFields(outcome) ==
    IF outcome.kind \in {"throw", "garbage"} THEN [iterable |-> TRUE, value |-> <<>>]
    ELSE IF outcome.kind = "array" THEN [iterable |-> TRUE, value |-> outcome.mappings]
    ELSE [iterable |-> FALSE, value |-> <<>>]

\* (mutant: the catch hands on what was thrown)
answerFormQuestionRaw(outcome) == trim(outcome)

\* geminiService.answerFormQuestion
answerFormQuestion(outcome) == IF outcome = "#throw" THEN "[ERROR]" ELSE trim(outcome)

\* the test inside the for..of loop over fieldMappings
isQuestion(mapping) ==
    mapping.fieldType = "custom_question" /\ Truthy(mapping.originalQuestion)

\* (mutant: the loop jumps to the last question)
nextQuestionLast(ms, k) ==
    IF {j \in k..Len(ms) : isQuestion(ms[j])} = {} THEN 0
    ELSE CHOOSE x \in {j \in k..Len(ms) : isQuestion(ms[j])} :
             \A y \in {j \in k..Len(ms) : isQuestion(ms[j])} : y <= x

\* the next mapping from position k on that the loop asks about (0 = none)
nextQuestion(ms, k) == First({j \in k..Len(ms) : isQuestion(ms[j])})

\* (mutant: the answer lands in the first mapping)
storeAnswerFirst(ms, k, answer) == [ms EXCEPT ![1].selectedValue = answer]

\* mapping.selectedValue = answer
storeAnswer(ms, k, answer) == [ms EXCEPT ![k].selectedValue = answer]

\* (mutant: the request carries every mapping a second time)
fillPayloadTwice(ms) == ms \o ms

\* data.fieldMappings of the fill request: the local fieldMappings
fillPayload(ms) == ms

\* the for..of loop from position k on: stop at the next question and await
\* its answer, or leave the loop and send the fill request
answerLoop(ms, k, r) ==
    LET q == nextQuestion(ms, k)
    IN /\ fieldMappings' = ms
       /\ isProcessing' = isProcessing
       /\ step' = step
       /\ IF q # 0
          THEN /\ pc' = "answering"
               /\ ansIdx' = q
               /\ status' = Status("info", "thinking", ms[q].originalQuestion)
               /\ chan' = Await("answerCall")
               /\ run' = [r EXCEPT !.stepLog = Append(@, "answerCall")]
          ELSE /\ pc' = "filling"
               /\ ansIdx' = 0
               /\ status' = status
               /\ chan' = Request("fillForm", fillPayload(ms))
               /\ run' = [r EXCEPT !.stepLog = Append(@, "fillForm")]

\* (mutant: the mapping branch is taken whatever the snapshot holds)
hasFieldsAlways(fields) == TRUE

\* if (fields.length > 0)
hasFields(fields) == Len(fields) > 0

\* the driver resumes with the analyze response
AnalyzeResponse ==
    /\ pc = "analyzing"
    /\ chan.state = "resp"
    /\ IF ~chan.response.success
       THEN Finish("failed", Status("error", "analysisFailed", ""), run)
       ELSE IF hasFields(chan.response.fields)
       THEN /\ pc' = "mapping"
            /\ chan' = Await("mapCall")
            /\ run' = [run EXCEPT !.stepLog = Append(@, "mapCall"), !.issued = TRUE,
                                  !.nFields = Len(chan.response.fields)]
            /\ UNCHANGED <<isProcessing, status>>
       ELSE /\ pc' = "settle"
            /\ chan' = Await("settle")
            /\ run' = [run EXCEPT !.stepLog = Append(@, "settle"),
                                  !.nFields = Len(chan.response.fields)]
            /\ UNCHANGED <<isProcessing, status>>
    /\ UNCHANGED <<dom, pageLog, step, apiKey, envKey, fieldMappings, ansIdx, fcall>>

\* the mapping call settles
MapReturn(outcome) ==
    /\ pc = "mapping"
    /\ chan.kind = "mapCall"
    /\ LET r == analyzeFormFields(outcome)
       IN IF r.iterable
          THEN answerLoop(r.value, 1, [run EXCEPT !.mapKind = outcome.kind,
                                                   !.mapped = r.value])
          ELSE /\ Catch("fieldMappings is not iterable", [run EXCEPT !.mapKind = outcome.kind])
               /\ UNCHANGED <<step, fieldMappings, ansIdx>>
    /\ UNCHANGED <<dom, pageLog, apiKey, envKey, fcall>>

\* an answer call settles: mapping.selectedValue = answer, loop goes on
AnswerReturn(outcome) ==
    /\ pc = "answering"
    /\ chan.kind = "answerCall"
    /\ answerLoop(storeAnswer(fieldMappings, ansIdx, answerFormQuestion(outcome)),
                  ansIdx + 1,
                  [run EXCEPT !.qa = Append(@, [k |-> ansIdx,
                                                question |-> fieldMappings[ansIdx].originalQuestion,
                                                answer |-> answerFormQuestion(outcome),
                                                failed |-> outcome = "#throw"]),
                              !.ansFailed = @ \/ outcome = "#throw"])
    /\ UNCHANGED <<dom, pageLog, apiKey, envKey, fcall>>

\* the driver resumes with the fill response
FillResponse ==
    /\ pc = "filling"
    /\ chan.state = "resp"
    /\ status' = IF chan.response.success
                 THEN Status("success", "filled", ToString(chan.response.filledCount))
                 ELSE status
    /\ pc' = "settle"
    /\ chan' = Await("settle")
    /\ run' = [run EXCEPT !.stepLog = Append(@, "settle"), !.mapped = <<>>, !.qa = <<>>]
    /\ fieldMappings' = <<>>     \* the local is not read again in this step
    /\ UNCHANGED <<dom, pageLog, step, isProcessing, apiKey, envKey, ansIdx, fcall>>

\* the 1000 ms pause ends: the advance request is sent
SettleTimer ==
    /\ pc = "settle"
    /\ chan.kind = "settle"
    /\ pc' = "navigating"
    /\ chan' = Request("clickNext", <<>>)
    /\ run' = [run EXCEPT !.stepLog = Append(@, "clickNext"), !.advSent = @ + 1]
    /\ UNCHANGED <<dom, pageLog, step, isProcessing, status, apiKey, envKey,
                   fieldMappings, ansIdx, fcall>>

\* (mutant: an advance response is always taken for a success)
nextAlways(response) == TRUE

\* if (nextResponse?.success)
nextSucceeded(response) == response.success

\* the driver resumes with the advance response
AdvanceResponse ==
    /\ pc = "navigating"
    /\ chan.state = "resp"
    /\ IF nextSucceeded(chan.response)
       THEN /\ pc' = "transition"
            /\ status' = Status("info", "moving", "")
            /\ chan' = Await("transition")
            /\ run' = [run EXCEPT !.stepLog = Append(@, "transition"), !.advOk = @ + 1]
            /\ UNCHANGED isProcessing
       ELSE Finish("complete", Status("success", "complete", ""), run)
    /\ UNCHANGED <<dom, pageLog, step, apiKey, envKey, fieldMappings, ansIdx, fcall>>

\* (mutant: the counter skips a value)
nextStepSkipping(s) == s + 2

\* the argument of the recursive call: step + 1
nextStep(s) == s + 1

\* the 3000 ms timer fires: processFormStep(tabId, step + 1)
TransitionTimer ==
    /\ pc = "transition"
    /\ chan.kind = "transition"
    /\ processFormStep(nextStep(step), run)
    /\ UNCHANGED <<dom, pageLog, apiKey, envKey, fcall>>

----------------------------------------------------------------------------
(* The channel and the page context *)

\* chrome.runtime.lastError as sendMessagePromise resolves it
ChannelError(message) == [success |-> FALSE, kind |-> "lastError", message |-> message]

\* (mutant: no listener answers, the port stays open)
answeredNever(c, r) == [c EXCEPT !.state = "open"]

\* what sendMessagePromise will resolve with after the listeners ran
answered(c, r) ==
    IF r.log.responses > 0 THEN [c EXCEPT !.state = "resp", !.response = r.response]
    ELSE IF r.keptOpen THEN [c EXCEPT !.state = "open"]
    ELSE [c EXCEPT !.state = "resp", !.response = ChannelError("port closed")]

\* the page after the request, the log of it, and the channel
delivered(r) ==
    /\ dom' = r.dom
    /\ pageLog' = r.log
    /\ chan' = answered(chan, r)

\* (mutant: the listeners work on the page as it was at the previous request)
documentAtLastRequest == IF fcall.before # <<>> THEN fcall.before ELSE dom

\* the global `document` the page-context code queries: the current page
document == dom

\* the page context receives the request: both listeners run
PageHandle ==
    /\ chan.state = "req"
    /\ delivered(dispatch(document, chan.request))
    /\ UNCHANGED <<pc, step, isProcessing, status, apiKey, envKey, fieldMappings,
                   ansIdx, run, fcall>>

\* the page context cannot be reached: the callback sees lastError
ChannelFail ==
    /\ chan.state = "req"
    /\ chan' = [chan EXCEPT !.state = "resp",
                            !.response = ChannelError("Could not establish connection")]
    /\ UNCHANGED <<dom, pageLog, pc, step, isProcessing, status, apiKey, envKey,
                   fieldMappings, ansIdx, run, fcall>>

\* the site reacts to an activated control by showing another page
PageTransition(page) ==
    /\ pageLog.activated # <<>>
    /\ page # dom
    /\ dom' = page
    /\ UNCHANGED <<pageLog, pc, step, isProcessing, status, apiKey, envKey,
                   fieldMappings, ansIdx, chan, run, fcall>>

----------------------------------------------------------------------------
(* The specification of a run *)

NoLog == [action |-> "none", handlers |-> 0, responses |-> 0, calls |-> <<>>,
          activated |-> <<>>, extractions |-> 0, root |-> -1]

NoMapping == [id |-> Undef, name |-> Undef, fieldType |-> Undef, selectedValue |-> Undef,
              originalQuestion |-> Undef, action |-> Undef]

\* no direct call made yet
NoCall == [phase |-> 0, mapping |-> NoMapping, value |-> "", ret |-> "", ret2 |-> "",
           target |-> 0, events |-> <<>>, before |-> <<>>, first |-> <<>>]

Init ==
    /\ dom \in Pages
    /\ pageLog = NoLog
    /\ pc = "idle"
    /\ step = 0
    /\ isProcessing = FALSE
    /\ status = Status("", "", "")
    /\ apiKey = ""
    /\ envKey \in {"", "env-key"}
    /\ fieldMappings = <<>>
    /\ ansIdx = 0
    /\ chan = NoChan
    /\ run = [NewRun(FALSE) EXCEPT !.outcome = "none"]
    /\ fcall = NoCall

Next ==
    \/ \E k \in {"", "user-key"} : SetApiKey(k)
    \/ \E chromeOK \in BOOLEAN : handleAIFillForm(chromeOK)
    \/ \E outcome \in TabOutcomes : TabsQueryReturn(outcome)
    \/ AnalyzeResponse
    \/ \E outcome \in MapOutcomes : MapReturn(outcome)
    \/ \E outcome \in AnswerOutcomes : AnswerReturn(outcome)
    \/ FillResponse
    \/ SettleTimer
    \/ AdvanceResponse
    \/ TransitionTimer
    \/ PageHandle
    \/ ChannelFail
    \/ \E page \in Pages : PageTransition(page)

Spec == Init /\ [][Next]_vars

\* what the scheduling guarantees: a request is handled or fails, a response
\* is consumed, a collaborator call settles, a timer fires
DriverStep ==
    \/ \E outcome \in TabOutcomes : TabsQueryReturn(outcome)
    \/ AnalyzeResponse
    \/ \E outcome \in MapOutcomes : MapReturn(outcome)
    \/ \E outcome \in AnswerOutcomes : AnswerReturn(outcome)
    \/ FillResponse
    \/ SettleTimer
    \/ AdvanceResponse
    \/ TransitionTimer

\* a request in flight is answered: by the listeners (PageHandle) or with
\* lastError (ChannelFail)
ChannelStep ==
    \/ ChannelFail
    \/ chan.state = "req" /\ chan'.state # "req" /\ UNCHANGED <<pc, step, run>>

LiveSpec == Spec /\ WF_vars(DriverStep) /\ WF_vars(ChannelStep)

----------------------------------------------------------------------------
(* Properties of a run *)

\* C1 as stated: a run never gets more than 5 successful advances and never
\* sends a 6th advance request.
C1_AtMostFiveAdvances == run.advOk <= 5 /\ run.advSent <= 5

\* C1, amended: a run gets at most 6 successful advances and sends at most 6
\* advance requests (steps 0..5 each send one); once the 6th advance has
\* succeeded the only thing left is the transition pause, and the run then
\* stops with the safety-limit completion.
C1_AtMostSixAdvances ==
    /\ run.advOk <= MaxSteps + 1
    /\ run.advSent <= MaxSteps + 1
    /\ run.advOk = MaxSteps + 1 =>
          \/ pc = "transition" /\ chan.kind = "transition"
          \/ pc = "idle" /\ run.outcome = "cap" /\ status.msg = "maxSteps" /\ ~isProcessing
    /\ run.outcome = "cap" => run.advOk = MaxSteps + 1

C1_Witness == run.outcome = "cap" /\ run.advSent = MaxSteps + 1

Terminal == pc = "idle" /\ chan = NoChan /\ run.outcome \in {"complete", "failed", "cap"}

\* C2: while a run is under way the driver always awaits something (a request
\* in flight, a response to consume, a collaborator call or a timer), and
\* every started run eventually reaches a terminal state, given that requests
\* are answered, calls settle and timers fire.
C2_RunTerminates ==
    /\ [](run.outcome = "running" => chan.state \in {"req", "resp", "wait"})
    /\ (run.outcome = "running") ~> Terminal

C2_Witness == Terminal /\ run.outcome = "complete" /\ step = 2

\* C3 as stated: whenever the driver consumes a channel failure (lastError),
\* the run ends Failed at once with an error status carrying the channel's
\* message.
C3_ChannelFailureFails ==
    [][(chan.state = "resp" /\ chan.response.kind = "lastError" /\ chan' # chan)
         => /\ pc' = "idle"
            /\ run'.outcome = "failed"
            /\ status'.type = "error"
            /\ status'.detail = chan.response.message]_vars

\* C4: a run started without a credential is Failed with an error status, has
\* issued no request and no collaborator call, and the running flag is clear.
C4_NoCredentialFails ==
    (run.outcome # "none" /\ ~run.hadKey) =>
        /\ run.outcome = "failed"
        /\ ~run.issued
        /\ run.stepLog = <<>>
        /\ pc = "idle"
        /\ chan = NoChan
        /\ ~isProcessing
        /\ status.type = "error"

C4_Witness == run.outcome = "failed" /\ ~run.hadKey /\ status.msg = "error"

\* C5: when the driver consumes an advance response that reports no control
\* found, the run ends Complete with a success status, the step counter and
\* the count of successful advances keep their values, and nothing is awaited.
C5_NotFoundCompletes ==
    [][(pc = "navigating" /\ chan.state = "resp" /\ chan.response.kind = "advance"
        /\ ~chan.response.success /\ chan' # chan)
         => /\ pc' = "idle"
            /\ run'.outcome = "complete"
            /\ status' = Status("success", "complete", "")
            /\ ~isProcessing'
            /\ step' = step
            /\ run'.advOk = run.advOk
            /\ run'.stepLog = run.stepLog
            /\ chan' = NoChan]_vars

C5_Witness ==
    /\ run.outcome = "complete" /\ pc = "idle"
    /\ pageLog.action = "clickNext" /\ pageLog.activated = <<>>

\* members of a sequence
Range(q) == {q[i] : i \in 1..Len(q)}

\* C6: in a step whose analyze response held zero fields, no mapping call, no
\* answer call and no fill request is issued, the run is not Failed, and the
\* settle pause is pending or the advance request of the step has been sent.
C6_ZeroFieldsSkipsToAdvance ==
    run.nFields = 0 =>
        /\ Range(run.stepLog) \cap {"mapCall", "answerCall", "fillForm"} = {}
        /\ run.outcome # "failed"
        /\ \/ pc = "settle" /\ chan.kind = "settle"
           \/ "clickNext" \in Range(run.stepLog)

C6_Witness ==
    /\ run.nFields = 0 /\ pc = "navigating" /\ chan.state = "req"
    /\ chan.request.action = "clickNext"

\* C7 as stated: in a step whose mapping call threw or returned something
\* that is no mapping set, the run is not Failed, the fill request carries the
\* empty mapping set, and the advance request is pending or sent.
C7_MappingFailureAbsorbed ==
    run.mapKind \in {"throw", "garbage", "object"} =>
        /\ run.outcome # "failed"
        /\ "fillForm" \in Range(run.stepLog)
        /\ chan.kind = "fillForm" => chan.request.fieldMappings = <<>>

\* C8 as stated: once a fill request has been handled, every trigger-add
\* mapping of it whose target exists has had that target activated, and the
\* response counts it.
C8_TriggerAddActivates ==
    (chan.kind = "fillForm" /\ chan.state = "resp" /\ chan.response.kind = "fill") =>
        \A k \in 1..Len(chan.request.fieldMappings) :
            LET m == chan.request.fieldMappings[k]
            IN (m.action = "click_add" /\ locate(dom, m) # 0) =>
                  /\ locate(dom, m) \in Range(pageLog.activated)
                  /\ chan.response.filledCount >= 1

----------------------------------------------------------------------------
(* fillFormField called directly, twice with the same arguments *)

\* a page with one control of every kind fillFormField distinguishes
FillPage(sel, agree, radio, text) ==
    << [Elem("input", "text", "first_name", "fn", "", 0) EXCEPT !.value = text],
       [Elem("select", "", "country", "country", "", 0) EXCEPT
           !.options = << [value |-> "us", text |-> "United States"],
                          [value |-> "ca", text |-> "Canada"],
                          [value |-> "ca", text |-> "Quebec"] >>,
           !.sel = sel],
       [Elem("input", "checkbox", "agree", "agree", "", 0) EXCEPT
           !.value = "on", !.checked = agree],
       [Elem("input", "radio", "r1", "gender", "", 0) EXCEPT
           !.value = "male", !.checked = (radio = 1)],
       [Elem("input", "radio", "r2", "gender", "", 0) EXCEPT
           !.value = "Female", !.checked = (radio = 2)],
       [Elem("textarea", "", "", "summary", "", 0) EXCEPT !.value = text],
       Button("btn_add", "Add Experience", 0) >>

FillPages ==
    { FillPage(sel, agree, radio, text) :
        sel \in 1..3, agree \in BOOLEAN, radio \in 0..2, text \in {"", "old"} }

FillMappings ==
    { [NoMapping EXCEPT !.id = id, !.name = name] :
        id \in {Undef, "first_name", "country", "agree", "r2", "btn_add", "nope"},
        name \in {Undef, "gender", "summary", "nope"} }

FillValues ==
    {"", "Jane", "US", "Quebec", "true", "True", "false", "on", "FEMALE", "male", "zzz",
     JSTrue, JSFalse}

FillInit ==
    /\ dom \in FillPages
    /\ pageLog = NoLog
    /\ pc = "idle"
    /\ step = 0
    /\ isProcessing = FALSE
    /\ status = Status("", "", "")
    /\ apiKey = ""
    /\ envKey = ""
    /\ fieldMappings = <<>>
    /\ ansIdx = 0
    /\ chan = NoChan
    /\ run = [NewRun(FALSE) EXCEPT !.outcome = "none"]
    /\ fcall = NoCall

\* the page and the record of a call of fillFormField(m, value)
called(m, value, r) ==
    /\ dom' = r.dom
    /\ fcall' = [phase |-> 1, mapping |-> m, value |-> value, ret |-> r.ret, ret2 |-> "",
                 target |-> r.target, events |-> r.events, before |-> dom, first |-> r.dom]

\* fillFormField(m, value)
FillCall(m, value) ==
    /\ fcall.phase = 0
    /\ called(m, value, fillFormField(dom, m, value))
    /\ UNCHANGED <<pageLog, pc, step, isProcessing, status, apiKey, envKey,
                   fieldMappings, ansIdx, chan, run>>

\* the page and the record of the second call
calledAgain(r) ==
    /\ dom' = r.dom
    /\ fcall' = [fcall EXCEPT !.phase = 2, !.ret2 = r.ret]

\* the same call once more
FillAgain ==
    /\ fcall.phase = 1
    /\ calledAgain(fillFormField(dom, fcall.mapping, fcall.value))
    /\ UNCHANGED <<pageLog, pc, step, isProcessing, status, apiKey, envKey,
                   fieldMappings, ansIdx, chan, run>>

FillNext ==
    \/ \E m \in FillMappings, value \in FillValues : FillCall(m, value)
    \/ FillAgain

SpecFill == FillInit /\ [][FillNext]_vars

\* an element carries the mapping's identifier, or its name
Located(d, m) ==
    \/ Truthy(m.id) /\ \E i \in 1..Len(d) : d[i].id = m.id
    \/ Truthy(m.name) /\ \E i \in 1..Len(d) : d[i].name = m.name

\* C9 as stated: a call of fillFormField returns true if and only if an
\* element is located by the mapping's identifier or name, whatever the
\* control kind and the value; otherwise it returns false.
C9_TrueIffLocated ==
    fcall.phase >= 1 =>
        /\ fcall.ret = "true" <=> Located(fcall.before, fcall.mapping)
        /\ fcall.ret = "false" <=> ~Located(fcall.before, fcall.mapping)

\* value, checked state and selection of every control of the page
Materialized(d) == [i \in 1..Len(d) |-> <<d[i].value, d[i].checked, d[i].sel>>]

\* C10: after a second fillFormField call with the same mapping and value,
\* every control has the value, checked state and selection the first call
\* left, and the second call returns what the first returned.
C10_FillIdempotent ==
    fcall.phase = 2 =>
        /\ Materialized(dom) = Materialized(fcall.first)
        /\ fcall.ret2 = fcall.ret

C10_Witness ==
    /\ fcall.phase = 2 /\ fcall.ret = "true"
    /\ Materialized(fcall.before) # Materialized(dom)
    /\ dom[fcall.target].type = "radio"

----------------------------------------------------------------------------
(* extractFormFields reached through an analyze request, on pages that vary *)
(* the dialog, the identifiers, the kinds and the styles of the controls    *)

\* the element with one of the styles a page can give it
Styled(e, style) ==
    CASE style = "displayNone" -> [e EXCEPT !.display = "none"]
      [] style = "hidden" -> [e EXCEPT !.visibility = "hidden"]
      [] style = "transparent" -> [e EXCEPT !.opacity = 0]
      [] style = "fixed" -> [e EXCEPT !.position = "fixed"]
      [] OTHER -> e

\* a dialog with two inputs, a background textarea without id, and a second
\* container (a dialog when modal2) with one input
ExtractPage(dlgStyle, type2, id2, id3, style3, modal2) ==
    << Styled([Elem("div", "", "dlg", "", "", 0) EXCEPT !.modal = TRUE], dlgStyle),
       Elem("input", type2, id2, "a", "", 1),
       Styled(Elem("input", "text", id3, "b", "", 1), style3),
       Elem("textarea", "", "", "notes", "", 0),
       [Elem("div", "", "dlg2", "", "", 0) EXCEPT !.modal = modal2],
       Elem("input", "text", "phone", "phone", "", 5) >>

ExtractPages ==
    { ExtractPage(dlgStyle, type2, id2, id3, style3, modal2) :
        dlgStyle \in {"shown", "displayNone", "hidden", "transparent"},
        type2 \in {"text", "hidden", "submit"},
        id2 \in {"", "email", "field_1"},
        id3 \in {"", "email"},
        style3 \in {"shown", "displayNone", "hidden", "transparent", "fixed"},
        modal2 \in BOOLEAN }

ExtractInit ==
    /\ dom \in ExtractPages
    /\ pageLog = NoLog
    /\ pc = "idle"
    /\ step = 0
    /\ isProcessing = FALSE
    /\ status = Status("", "", "")
    /\ apiKey = ""
    /\ envKey = ""
    /\ fieldMappings = <<>>
    /\ ansIdx = 0
    /\ chan = NoChan
    /\ run = [NewRun(FALSE) EXCEPT !.outcome = "none"]
    /\ fcall = NoCall

\* sendMessagePromise(tabId, { action: 'analyzeForm' })
AnalyzeRequest ==
    /\ chan = NoChan
    /\ chan' = Request("analyzeForm", <<>>)
    /\ UNCHANGED <<dom, pageLog, pc, step, isProcessing, status, apiKey, envKey,
                   fieldMappings, ansIdx, run, fcall>>

ExtractNext ==
    \/ AnalyzeRequest
    \/ PageHandle

SpecExtract == ExtractInit /\ [][ExtractNext]_vars

\* an analyze request has been answered with the snapshot
Extracted == chan.kind = "analyzeForm" /\ chan.state = "resp" /\ chan.response.kind = "analyze"

\* C11 as stated: in the snapshot of every extraction pass the identifiers
\* of the fields are pairwise distinct.
C11_IdentifiersDistinct ==
    Extracted =>
        \A a, b \in 1..Len(chan.response.fields) :
            a # b => chan.response.fields[a].id # chan.response.fields[b].id

\* the element has no layout box: it or an ancestor is display:none
NoLayout(d, i) == d[i].display = "none" \/ \E a \in Ancestors(d, i) : d[a].display = "none"

\* the element is not visible: display none, visibility hidden (its own or
\* inherited), zero opacity, or no layout unless it is fixed-positioned
NotVisible(d, i) ==
    \/ d[i].display = "none"
    \/ d[i].visibility = "hidden"
    \/ \E a \in Ancestors(d, i) : d[a].visibility = "hidden"
    \/ d[i].opacity = 0
    \/ NoLayout(d, i) /\ d[i].position # "fixed"

\* C12: no field of an extraction snapshot was read from a control that is
\* not visible, nor from an input of kind hidden, submit or button.
C12_OnlyVisibleControls ==
    Extracted =>
        \A n \in 1..Len(chan.response.fields) :
            LET i == chan.response.fields[n].el
            IN /\ ~NotVisible(dom, i)
               /\ ~(dom[i].tag = "input" /\ dom[i].type \in {"hidden", "submit", "button"})

C12_Witness ==
    /\ Extracted
    /\ ~NotVisible(dom, 1) /\ ~dom[5].modal
    /\ Len(chan.response.fields) = 1
    /\ chan.response.fields[1].el = 2
    /\ dom[3].opacity = 0

\* the visible dialogs / overlays of the page
VisibleDialogs(d) == {i \in 1..Len(d) : d[i].modal /\ ~NotVisible(d, i)}

\* C13: while a visible dialog exists, the snapshot holds exactly the visible
\* controls (other than hidden, submit and button inputs) inside the last
\* visible dialog in document order, and so no control outside it.
C13_ScopedToDialog ==
    (Extracted /\ VisibleDialogs(dom) # {}) =>
        LET root == CHOOSE m \in VisibleDialogs(dom) : \A o \in VisibleDialogs(dom) : o <= m
        IN {chan.response.fields[n].el : n \in 1..Len(chan.response.fields)}
           = {i \in 1..Len(dom) :
                 /\ dom[i].tag \in {"input", "textarea", "select"}
                 /\ root \in Ancestors(dom, i)
                 /\ ~NotVisible(dom, i)
                 /\ ~(dom[i].tag = "input" /\ dom[i].type \in {"hidden", "submit", "button"})}

C13_Witness ==
    /\ Extracted
    /\ VisibleDialogs(dom) = {1}
    /\ {chan.response.fields[n].el : n \in 1..Len(chan.response.fields)} = {2, 3}
    /\ ~NotVisible(dom, 4)

----------------------------------------------------------------------------
(* Properties of the message router and of the driver's sequencing *)

\* number of positions of q that hold x
CountOf(q, x) == Cardinality({i \in 1..Len(q) : q[i] = x})

\* C14 as stated: a request delivered to the page context is handled by one
\* handler invocation that responds once; a fill request applies each mapping
\* of its batch at most once and an analyze request runs one extraction.
C14_HandledOnce ==
    pageLog.action # "none" =>
        /\ pageLog.handlers = 1
        /\ pageLog.responses = 1
        /\ pageLog.action = "analyzeForm" => pageLog.extractions = 1
        /\ pageLog.action = "fillForm" =>
              \A a, b \in 1..Len(pageLog.calls) :
                  a # b => pageLog.calls[a].k # pageLog.calls[b].k

\* the driver awaits the response of a cross-context request or of an AI call
Outstanding(c) ==
    \/ c.kind \in {"analyzeForm", "fillForm", "clickNext"} /\ c.state \in {"req", "open"}
    \/ c.kind \in {"mapCall", "answerCall"} /\ c.state = "wait"

\* C15: no run is started while a request, call or timer of a run is awaited
\* (the running flag, which disables the button, is set whenever something is
\* awaited), and a request or AI call is issued only when the response of the
\* previous request has been received, the previous call has settled or a
\* timer has fired.
C15_OneOutstanding ==
    /\ [](~run.overlap)
    /\ [](chan # NoChan => isProcessing /\ run.outcome = "running")
    /\ [][(Outstanding(chan') /\ chan'.state \in {"req", "wait"} /\ chan' # chan)
            => \/ chan.state \in {"idle", "resp"}
               \/ chan.state = "wait" /\ pc' # pc]_vars

C15_Witness ==
    /\ pc = "filling" /\ chan.state = "req" /\ isProcessing
    /\ run.advOk = 1 /\ Len(run.qa) = 2

\* the mapping is flagged as an open-ended question and carries its text
OpenQuestion(m) == m.fieldType = "custom_question" /\ m.originalQuestion \notin {Undef, ""}

\* the positions of the open-ended questions of a mapping set
Questions(ms) == {j \in 1..Len(ms) : OpenQuestion(ms[j])}

\* C16: while an answer is awaited, it is the only request pending, it is for
\* a question, the questions before it in mapping order have all been answered
\* in that order, none after it has been asked and the fill request has not
\* been sent; when the fill request is sent every question has been answered,
\* in mapping order.
C16_AnswersSequential ==
    /\ pc = "answering" =>
          /\ chan.kind = "answerCall" /\ chan.state = "wait"
          /\ ansIdx \in Questions(run.mapped)
          /\ [n \in 1..Len(run.qa) |-> run.qa[n].k]
               = InOrder({j \in Questions(run.mapped) : j < ansIdx})
          /\ CountOf(run.stepLog, "answerCall") = Len(run.qa) + 1
          /\ CountOf(run.stepLog, "fillForm") = 0
    /\ pc = "filling" =>
          /\ [n \in 1..Len(run.qa) |-> run.qa[n].k] = InOrder(Questions(run.mapped))
          /\ CountOf(run.stepLog, "answerCall") = Len(run.qa)
          /\ CountOf(run.stepLog, "fillForm") = 1

C16_Witness ==
    /\ pc = "answering" /\ ansIdx = 2 /\ Len(run.qa) = 1
    /\ run.qa[1].question # fieldMappings[2].originalQuestion

\* C17: in the fill request as sent, a question mapping has as resolved value
\* the answer of the one answer call issued for it, which was issued with its
\* own question text; every other mapping has the resolved value the mapping
\* call returned; nothing else of a mapping differs.
C17_AnswerStoredInOwnMapping ==
    (chan.kind = "fillForm" /\ chan.state = "req") =>
        /\ Len(chan.request.fieldMappings) = Len(run.mapped)
        /\ \A k \in 1..Len(run.mapped) :
              LET sent == chan.request.fieldMappings[k]
                  got == run.mapped[k]
                  calls == {n \in 1..Len(run.qa) : run.qa[n].k = k}
              IN /\ [sent EXCEPT !.selectedValue = got.selectedValue] = got
                 /\ IF OpenQuestion(got)
                    THEN /\ Cardinality(calls) = 1
                         /\ \A n \in calls :
                               /\ run.qa[n].question = got.originalQuestion
                               /\ sent.selectedValue = run.qa[n].answer
                    ELSE /\ calls = {}
                         /\ sent.selectedValue = got.selectedValue

C17_Witness ==
    /\ chan.kind = "fillForm" /\ chan.state = "req"
    /\ Len(run.mapped) = 2
    /\ run.mapped[1].id = "q3" /\ run.mapped[2].id = "q2"
    /\ chan.request.fieldMappings[2].selectedValue = "I love it"

\* C18: in a step where an answer call failed, the run is not Failed; the
\* question whose call failed has the sentinel "[ERROR]" as resolved value;
\* the loop goes on (when the fill request is sent every question has been
\* asked); and after the fill request the settle pause and the advance request
\* follow.
C18_AnswerFailureAbsorbed ==
    run.ansFailed =>
        /\ run.outcome # "failed"
        /\ \A n \in 1..Len(run.qa) :
              run.qa[n].failed =>
                  /\ run.qa[n].answer = "[ERROR]"
                  /\ pc \in {"answering", "filling"}
                       => fieldMappings[run.qa[n].k].selectedValue = "[ERROR]"
        /\ \/ pc = "answering" /\ chan.kind = "answerCall"
           \/ /\ pc = "filling" /\ chan.kind = "fillForm"
              /\ Len(run.qa) = Cardinality(Questions(run.mapped))
           \/ pc = "settle" /\ chan.kind = "settle"
           \/ "clickNext" \in Range(run.stepLog)

C18_Witness ==
    /\ run.ansFailed /\ pc = "filling" /\ chan.state = "req"
    /\ Len(run.qa) = 2 /\ run.qa[1].failed /\ ~run.qa[2].failed

\* the mappings of a batch whose target exists on the page
Found(d, ms) == SelectSeq(ms, LAMBDA m : Located(d, m))

\* what a call did, without the position of its mapping in the batch
Effects(calls) ==
    [n \in 1..Len(calls) |-> [value |-> calls[n].value, ret |-> calls[n].ret,
                               target |-> calls[n].target, events |-> calls[n].events]]

\* C19: when a fill request is delivered to the page context, it is answered
\* with success; every call for a mapping whose target is not found returns
\* false, has no target and dispatches nothing; every call for another mapping
\* returns true; and the page, and what the calls for the other mappings did,
\* are what the same request without the not-found mappings gives.
C19_NotFoundSkipsOnlyThatMapping ==
    [][(/\ chan.kind = "fillForm" /\ chan.state = "req" /\ chan' # chan
        /\ chan'.response # ChannelError("Could not establish connection"))
         => LET ms == chan.request.fieldMappings
                without == dispatch(dom, [chan.request EXCEPT
                                             !.fieldMappings = Found(dom, ms)])
                calls == pageLog'.calls
            IN /\ chan'.state = "resp"
               /\ chan'.response.kind = "fill"
               /\ chan'.response.success
               /\ chan'.response.total = Len(ms)
               /\ \A n \in 1..Len(calls) :
                     IF Located(dom, ms[calls[n].k])
                     THEN calls[n].ret = "true"
                     ELSE /\ calls[n].ret = "false"
                          /\ calls[n].target = 0
                          /\ calls[n].events = <<>>
               /\ dom' = without.dom
               /\ Effects(SelectSeq(calls, LAMBDA c : c.ret # "false"))
                    = Effects(without.log.calls)]_vars

C19_Witness ==
    /\ chan.kind = "fillForm" /\ chan.state = "resp" /\ chan.response.kind = "fill"
    /\ Len(chan.request.fieldMappings) = 2
    /\ ~Located(dom, chan.request.fieldMappings[1])
    /\ \E n \in 1..Len(pageLog.calls) : pageLog.calls[n].k = 1 /\ pageLog.calls[n].ret = "false"
    /\ \E n \in 1..Len(pageLog.calls) : pageLog.calls[n].k = 2 /\ pageLog.calls[n].ret = "true"
    /\ dom[getElementById(dom, chan.request.fieldMappings[2].id)].value = "Jane"

\* the two strings are equal ignoring case
EqualIgnoringCase(a, b) == toLowerCase(a) = toLowerCase(b)

\* C20 as stated: a call of fillFormField with a string value on a select
\* returns true and leaves selected the first option, in option order, whose
\* value or label equals the value ignoring case; when there is none the
\* selection is as it was.
C20_FirstMatchSelected ==
    (/\ fcall.phase >= 1 /\ fcall.target # 0 /\ IsString(fcall.value)
     /\ fcall.before[fcall.target].tag = "select") =>
        LET opts == fcall.before[fcall.target].options
            matches == {k \in 1..Len(opts) :
                           \/ EqualIgnoringCase(opts[k].value, fcall.value)
                           \/ EqualIgnoringCase(opts[k].text, fcall.value)}
        IN /\ fcall.ret = "true"
           /\ fcall.first[fcall.target].sel
                = IF matches = {} THEN fcall.before[fcall.target].sel
                  ELSE CHOOSE k \in matches : \A j \in matches : k <= j

----------------------------------------------------------------------------
(* Further properties of fillFormField called directly *)

\* the elements carrying the mapping's identifier / the mapping's name
WithId(d, m) == {i \in 1..Len(d) : Truthy(m.id) /\ d[i].id = m.id}
WithName(d, m) == {i \in 1..Len(d) : Truthy(m.name) /\ d[i].name = m.name}

\* C21 as stated: when an element has the mapping's identifier, the call
\* works on the first such element, and every other element that has the
\* mapping's name is as it was before the call.
C21_IdentifierBeforeName ==
    (fcall.phase >= 1 /\ WithId(fcall.before, fcall.mapping) # {}) =>
        /\ fcall.target \in WithId(fcall.before, fcall.mapping)
        /\ \A i \in WithId(fcall.before, fcall.mapping) : fcall.target <= i
        /\ \A j \in WithName(fcall.before, fcall.mapping) \ {fcall.target} :
              fcall.first[j] = fcall.before[j]

\* the radios of the group of radio r, r excluded
GroupOf(d, r) ==
    {j \in 1..Len(d) \ {r} :
        /\ d[r].tag = "input" /\ d[r].type = "radio"
        /\ d[j].tag = "input" /\ d[j].type = "radio"
        /\ d[j].name = d[r].name}

\* C21, amended: when an element has the mapping's identifier, the call works
\* on the first such element, and every other element that has the mapping's
\* name is as it was before the call, unless the element worked on is a radio
\* and the other element is a radio of its group; an element outside that
\* group is never changed.
C21_IdentifierBeforeNameButGroup ==
    (fcall.phase >= 1 /\ WithId(fcall.before, fcall.mapping) # {}) =>
        /\ fcall.target \in WithId(fcall.before, fcall.mapping)
        /\ \A i \in WithId(fcall.before, fcall.mapping) : fcall.target <= i
        /\ \A j \in (1..Len(fcall.before)) \ {fcall.target} :
              j \notin GroupOf(fcall.before, fcall.target)
                  => fcall.first[j] = fcall.before[j]

C21_Witness ==
    /\ fcall.phase = 1 /\ fcall.ret = "true"
    /\ fcall.mapping.id = "first_name" /\ fcall.mapping.name = "summary"
    /\ fcall.target = 1
    /\ fcall.first[1].value = "Jane" /\ fcall.before[1].value = "old"
    /\ fcall.first[6].value = "old"

\* the target is a plain text control: a text-like input, not a checkbox, a
\* radio, a select or a textarea
PlainText(e) == e.tag = "input" /\ e.type \notin {"checkbox", "radio"}

\* C29 as stated: a call that returns true has dispatched to its target
\* input, change, blur and keyup in that order, those four only, preceded for
\* a plain text control by a re-invocation of the native value setter.
C29_EventsInOrder ==
    (fcall.phase >= 1 /\ fcall.ret = "true") =>
        fcall.events
          = (IF PlainText(fcall.before[fcall.target]) THEN <<"nativeValueSetter">> ELSE <<>>)
            \o <<"input", "change", "blur", "keyup">>

----------------------------------------------------------------------------
(* findNextButton reached through an advance request, on pages that vary   *)
(* the dialogs and the buttons                                             *)

\* a dialog with a button and an input, two background buttons (one with an
\* accessible label only), and a second, empty container after them (a
\* dialog unless style6 is "absent")
NavPage(style1, button2, type3, style3, style6) ==
    << Styled([Elem("div", "", "dlg", "", "", 0) EXCEPT !.modal = TRUE], style1),
       [Button("", button2.text, 1) EXCEPT !.aria = button2.aria],
       Styled([Elem("input", type3, "", "go", "", 1) EXCEPT !.value = "Continue"], style3),
       [Button("", "", 0) EXCEPT !.aria = "Proceed"],
       Button("", "Review", 0),
       Styled([Elem("div", "", "dlg2", "", "", 0) EXCEPT !.modal = (style6 # "absent")],
              style6) >>

NavPages ==
    { NavPage(style1, button2, type3, style3, style6) :
        style1 \in {"shown", "displayNone"},
        button2 \in { [text |-> "Back", aria |-> ""], [text |-> " Next ", aria |-> ""],
                      [text |-> "Preview", aria |-> ""],
                      [text |-> "Next page of results", aria |-> ""],
                      [text |-> "Finish Application", aria |-> ""],
                      [text |-> "", aria |-> "Continue"] },
        type3 \in {"submit", "text"},
        style3 \in {"shown", "hidden"},
        style6 \in {"absent", "shown", "hidden", "transparent", "fixed"} }

NavInit ==
    /\ dom \in NavPages
    /\ pageLog = NoLog
    /\ pc = "idle"
    /\ step = 0
    /\ isProcessing = FALSE
    /\ status = Status("", "", "")
    /\ apiKey = ""
    /\ envKey = ""
    /\ fieldMappings = <<>>
    /\ ansIdx = 0
    /\ chan = NoChan
    /\ run = [NewRun(FALSE) EXCEPT !.outcome = "none"]
    /\ fcall = NoCall

\* sendMessagePromise(tabId, { action: 'clickNext' })
AdvanceRequest ==
    /\ chan = NoChan
    /\ chan' = Request("clickNext", <<>>)
    /\ UNCHANGED <<dom, pageLog, pc, step, isProcessing, status, apiKey, envKey,
                   fieldMappings, ansIdx, run, fcall>>

NavNext ==
    \/ AdvanceRequest
    \/ PageHandle

SpecNav == NavInit /\ [][NavNext]_vars

\* the scope: the last visible dialog in document order, 0 (the whole page)
\* when no dialog is visible
Scope(d) ==
    IF VisibleDialogs(d) = {} THEN 0
    ELSE CHOOSE m \in VisibleDialogs(d) : \A o \in VisibleDialogs(d) : o <= m

\* C22: the scope root resolved for a request is the last visible dialog in
\* document order, the whole page exactly when no dialog is visible, and never
\* a dialog that is not visible.
C22_LastVisibleDialog ==
    pageLog.action = "clickNext" =>
        /\ pageLog.root = Scope(dom)
        /\ pageLog.root = 0 <=> VisibleDialogs(dom) = {}
        /\ pageLog.root # 0 => dom[pageLog.root].modal /\ ~NotVisible(dom, pageLog.root)

C22_Witness ==
    /\ pageLog.action = "clickNext" /\ pageLog.root = 1
    /\ dom[6].modal /\ dom[6].visibility = "hidden"

\* the forward-progress keywords
ForwardKeywords == {"next", "continue", "proceed", "review", "submit application"}

\* the control's visible text or accessible label equals a keyword, or its
\* visible text is short and contains one (case and outer blanks ignored)
ForwardLabel(e) ==
    LET text == toLowerCase(trim(IF e.text # "" THEN e.text ELSE e.value))
        label == toLowerCase(trim(e.aria))
    IN \/ text \in ForwardKeywords
       \/ label \in ForwardKeywords
       \/ length(text) < 20 /\ \E kw \in ForwardKeywords : includes(text, kw)

\* the visible buttons and submit-like inputs of the scope that carry a
\* forward-progress label
ForwardControls(d) ==
    {i \in 1..Len(d) :
        /\ d[i].tag = "button" \/ (d[i].tag = "input" /\ d[i].type \in {"submit", "button"})
        /\ Scope(d) = 0 \/ Scope(d) \in Ancestors(d, i)
        /\ ~NotVisible(d, i)
        /\ ForwardLabel(d[i])}

----------------------------------------------------------------------------
(* Further properties of the message router within a run *)

\* C24: when an advance request is delivered to the page context, the
\* response reports success exactly when the scope holds a forward control;
\* then the first such control, and no other, is activated once; when there is
\* none nothing is activated and the page is as it was; and a change of the
\* page after the activation leaves the response as it is.
C24_SuccessIffFound ==
    /\ [][(/\ chan.kind = "clickNext" /\ chan.state = "req" /\ chan' # chan
            /\ chan'.response # ChannelError("Could not establish connection"))
             => /\ chan'.state = "resp"
                /\ chan'.response.kind = "advance"
                /\ chan'.response.success <=> ForwardControls(dom) # {}
                /\ pageLog'.activated
                     = IF ForwardControls(dom) = {} THEN <<>>
                       ELSE << CHOOSE i \in ForwardControls(dom) :
                                  \A j \in ForwardControls(dom) : i <= j >>
                /\ ForwardControls(dom) = {} => dom' = dom]_vars
    /\ [][(chan.kind = "clickNext" /\ chan.state = "resp" /\ dom' # dom)
             => chan' = chan]_vars

C24_Witness ==
    /\ chan.kind = "clickNext" /\ chan.state = "resp" /\ chan.response.kind = "advance"
    /\ chan.response.success
    /\ pageLog.activated = <<4>>
    /\ ForwardControls(dom) = {}

\* C25 as stated: the response to a fill request carries total equal to the
\* number of mappings of the request, and filledCount equal to the number of
\* those mappings for which a call on a located element was made during the
\* request, between 0 and total.
C25_CountsApplied ==
    (chan.kind = "fillForm" /\ chan.state = "resp" /\ chan.response.kind = "fill") =>
        /\ chan.response.total = Len(chan.request.fieldMappings)
        /\ chan.response.filledCount
             = Cardinality({k \in 1..Len(chan.request.fieldMappings) :
                               \E n \in 1..Len(pageLog.calls) :
                                   pageLog.calls[n].k = k /\ pageLog.calls[n].ret = "true"})
        /\ chan.response.filledCount >= 0
        /\ chan.response.filledCount <= chan.response.total

----------------------------------------------------------------------------
(* Order of a step and the status shown *)

\* what may directly follow what in the requests, calls and pauses of a step
Follows(a, b) ==
    \/ a = "analyzeForm" /\ b \in {"mapCall", "settle"}
    \/ a = "mapCall" /\ b \in {"answerCall", "fillForm"}
    \/ a = "answerCall" /\ b \in {"answerCall", "fillForm"}
    \/ a = "fillForm" /\ b = "settle"
    \/ a = "settle" /\ b = "clickNext"
    \/ a = "clickNext" /\ b = "transition"

\* C26: what a step has issued is a prefix of analyze, [mapping call, answer
\* calls, fill], settle pause, advance, transition pause, each but the answer
\* calls at most once, the bracketed part present exactly when the snapshot
\* held fields; the settle pause starts when the fill response (or a snapshot
\* without fields) is consumed, the advance request is sent when the settle
\* pause ends, and the analyze request of the next step when the transition
\* pause ends.
C26_StepOrder ==
    /\ [](/\ run.stepLog # <<>> => run.stepLog[1] = "analyzeForm"
          /\ \A n \in 1..(Len(run.stepLog) - 1) : Follows(run.stepLog[n], run.stepLog[n + 1])
          /\ \A x \in {"analyzeForm", "mapCall", "fillForm", "settle", "clickNext", "transition"} :
                CountOf(run.stepLog, x) <= 1
          /\ CountOf(run.stepLog, "mapCall") = 1 => run.nFields > 0
          /\ (Len(run.stepLog) >= 2 /\ run.stepLog[2] = "settle") => run.nFields = 0)
    /\ [][(CountOf(run'.stepLog, "settle") = 1 /\ CountOf(run.stepLog, "settle") = 0)
            => /\ chan.state = "resp"
               /\ chan.kind \in {"fillForm", "analyzeForm"}
               /\ chan'.kind = "settle"]_vars
    /\ [][(CountOf(run'.stepLog, "clickNext") = 1 /\ CountOf(run.stepLog, "clickNext") = 0)
            => /\ chan.kind = "settle" /\ pc = "settle"
               /\ chan'.kind = "clickNext" /\ chan'.state = "req"]_vars
    /\ [][(step' = step + 1)
            => /\ chan.kind = "transition" /\ pc = "transition"
               /\ run.stepLog[Len(run.stepLog)] = "transition"]_vars

C26_Witness ==
    /\ step = 1 /\ run.advOk = 2
    /\ run.stepLog = <<"analyzeForm", "mapCall", "answerCall", "answerCall", "fillForm",
                       "settle", "clickNext", "transition">>

\* the phases of a run whose entry the status is to show
ShownPhases == {"analyzing", "mapping", "answering", "filling", "navigating", "idle"}

\* C27 as stated: whenever the driver enters a phase, the status changes
\* with it.
C27_StatusAtEveryPhase ==
    [][(pc' # pc /\ pc' \in ShownPhases /\ run'.outcome # "none") => status' # status]_vars

----------------------------------------------------------------------------
(* geminiService.extractJSON and the parsing in analyzeFormFields, on      *)
(* response texts.  A text is a sequence of tokens: "t" a word of          *)
(* commentary, " " a blank, "nl" a newline, "fence:json" and "fence" the fences, *)
(* the four brackets, and "m" the members of a mapping object.             *)

RECURSIVE removeFence(_, _)
\* text.replace(/<fence>\n?/g, '')
removeFence(text, fence) ==
    IF text = <<>> THEN <<>>
    ELSE IF Head(text) = fence
         THEN IF Len(text) >= 2 /\ text[2] = "nl"
              THEN removeFence(SubSeq(text, 3, Len(text)), fence)
              ELSE removeFence(Tail(text), fence)
         ELSE <<Head(text)>> \o removeFence(Tail(text), fence)

RECURSIVE trimTokens(_)
\* String.prototype.trim on a text
trimTokens(text) ==
    IF text = <<>> THEN <<>>
    ELSE IF Head(text) \in {" ", "nl"} THEN trimTokens(Tail(text))
    ELSE IF text[Len(text)] \in {" ", "nl"} THEN trimTokens(SubSeq(text, 1, Len(text) - 1))
    ELSE text

\* the positions where /\{[\s\S]*\}|\[[\s\S]*\]/ can start a match
matchStarts(text) ==
    {i \in 1..Len(text) :
        \/ text[i] = "{" /\ \E j \in (i + 1)..Len(text) : text[j] = "}"
        \/ text[i] = "[" /\ \E j \in (i + 1)..Len(text) : text[j] = "]"}

\* the match of the pattern: from the leftmost start to the last closer of
\* the kind of its opener (the quantifier is greedy)
firstMatch(text) ==
    LET i == First(matchStarts(text))
        closer == IF text[i] = "{" THEN "}" ELSE "]"
        j == CHOOSE x \in (i + 1)..Len(text) :
                 /\ text[x] = closer
                 /\ \A y \in (i + 1)..Len(text) : text[y] = closer => y <= x
    IN SubSeq(text, i, j)

\* extractJSON(text)
extractJSON(text) ==
    LET cleaned == removeFence(removeFence(text, "fence:json"), "fence")
    IN IF matchStarts(cleaned) # {} THEN firstMatch(cleaned)
       ELSE trimTokens(cleaned)

\* JSON.parse on the texts of the model: "array" with its number of elements,
\* "object", or "throw"
jsonParse(text) ==
    LET bare == SelectSeq(text, LAMBDA x : x \notin {" ", "nl"})
    IN CASE bare = <<"[", "]">> -> [kind |-> "array", elements |-> 0]
         [] bare = <<"[", "{", "m", "}", "]">> -> [kind |-> "array", elements |-> 1]
         [] bare = <<"{", "m", "}">> -> [kind |-> "object", elements |-> 0]
         [] bare = <<"{", "}">> -> [kind |-> "object", elements |-> 0]
         [] OTHER -> [kind |-> "throw", elements |-> 0]

\* the try block of analyzeFormFields on a response text: how the mapping
\* call comes out (the kinds of MapOutcomes)
parsedMappings(text) ==
    LET parsed == jsonParse(extractJSON(text))
    IN IF parsed.kind = "throw" THEN [kind |-> "garbage", elements |-> 0] ELSE parsed

\* a response text: commentary, the JSON value (fenced or not), commentary
ResponseText(pre, fenced, json, post) ==
    pre \o (IF fenced THEN <<"fence:json", "nl">> ELSE <<>>) \o json
        \o (IF fenced THEN <<"nl", "fence">> ELSE <<>>) \o post

OneMapping == <<"[", "{", "m", "}", "]">>

ParseInputs ==
    { [phase |-> 0, json |-> json, text |-> ResponseText(pre, fenced, json, post),
       extracted |-> <<>>, parsed |-> [kind |-> "none", elements |-> 0]] :
        pre \in { <<>>, <<"t", " ">>, <<"t", "}", " ">>, <<"{", "t", "}", " ">> },
        fenced \in BOOLEAN,
        json \in { OneMapping, <<"[", "]">>, <<"{", "m", "}">>, <<>> },
        post \in { <<>>, <<" ", "t">>, <<" ", "t", "[", "t", "]">>, <<" ", "{", "t", "}">> } }

ParseInit ==
    /\ dom = ConfirmPage
    /\ pageLog = NoLog
    /\ pc = "idle"
    /\ step = 0
    /\ isProcessing = FALSE
    /\ status = Status("", "", "")
    /\ apiKey = ""
    /\ envKey = ""
    /\ fieldMappings = <<>>
    /\ ansIdx = 0
    /\ chan = NoChan
    /\ run = [NewRun(FALSE) EXCEPT !.outcome = "none"]
    /\ fcall \in ParseInputs

\* the response text goes through extractJSON and JSON.parse
ParseCall ==
    /\ fcall.phase = 0
    /\ fcall' = [fcall EXCEPT !.phase = 1,
                              !.extracted = extractJSON(fcall.text),
                              !.parsed = parsedMappings(fcall.text)]
    /\ UNCHANGED <<dom, pageLog, pc, step, isProcessing, status, apiKey, envKey,
                   fieldMappings, ansIdx, chan, run>>

ParseNext == ParseCall

SpecParse == ParseInit /\ [][ParseNext]_vars

\* C28 as stated: from a response text that holds a JSON value between
\* commentary and/or fences, exactly that value is extracted, and a
\* one-element array yields one mapping.
C28_FirstJSONExtracted ==
    (fcall.phase = 1 /\ fcall.json # <<>>) =>
        /\ fcall.extracted = fcall.json
        /\ fcall.json = OneMapping => fcall.parsed = [kind |-> "array", elements |-> 1]

\* Scenario C: commentary, then the fenced one-element array and nothing
\* after it, yields that one mapping.
C28_ScenarioC ==
    (/\ fcall.phase = 1
     /\ fcall.text = <<"t", " ", "fence:json", "nl">> \o OneMapping \o <<"nl", "fence">>) =>
        fcall.parsed = [kind |-> "array", elements |-> 1]

----------------------------------------------------------------------------
(* A fill request delivered to the page context, on batches that target    *)
(* free-text controls and others                                           *)

BatchPool ==
    { Mapping("first_name", "firstName", Undef, Undef, Undef),
      Mapping("email", "email", Undef, Undef, "fill"),
      Mapping("first_name", "firstName", "Janet", Undef, Undef),
      Mapping("q1", "custom_question", "I love it", "Why us?", Undef),
      Mapping("country", "country", "CA", Undef, Undef),
      Mapping("ghost", "email", Undef, Undef, Undef),
      [Mapping(Undef, Undef, "jobs", Undef, Undef) EXCEPT !.name = "q"] }

BatchInit ==
    /\ dom \in {DialogPage("Next"), FormPage("Next")}
    /\ pageLog = NoLog
    /\ pc = "idle"
    /\ step = 0
    /\ isProcessing = FALSE
    /\ status = Status("", "", "")
    /\ apiKey = ""
    /\ envKey = ""
    /\ fieldMappings = <<>>
    /\ ansIdx = 0
    /\ chan = NoChan
    /\ run = [NewRun(FALSE) EXCEPT !.outcome = "none"]
    /\ fcall = NoCall

\* sendMessagePromise(tabId, { action: 'fillForm', data: { fieldMappings, userData } })
FillRequest(ms) ==
    /\ chan = NoChan
    /\ chan' = Request("fillForm", ms)
    /\ UNCHANGED <<dom, pageLog, pc, step, isProcessing, status, apiKey, envKey,
                   fieldMappings, ansIdx, run, fcall>>

BatchNext ==
    \/ \E ms \in SeqsUpTo(BatchPool, MaxMappings) : FillRequest(ms)
    \/ PageHandle

SpecBatch == BatchInit /\ [][BatchNext]_vars

\* the string resolved for a mapping: its selected value (or answer), else
\* the profile value of its slot; Undef when there is neither
Resolved(m, profile) ==
    IF m.selectedValue \notin {Undef, ""} THEN m.selectedValue
    ELSE IF m.fieldType \in DOMAIN profile /\ profile[m.fieldType] # ""
         THEN profile[m.fieldType]
         ELSE Undef

\* the control a mapping targets: the first with its identifier, else the
\* first with its name, 0 when there is none
TargetOf(d, m) ==
    IF WithId(d, m) # {} THEN CHOOSE i \in WithId(d, m) : \A j \in WithId(d, m) : i <= j
    ELSE IF WithName(d, m) # {}
         THEN CHOOSE i \in WithName(d, m) : \A j \in WithName(d, m) : i <= j
         ELSE 0

FreeText(e) ==
    \/ e.tag = "textarea"
    \/ e.tag = "input" /\ e.type \in {"text", "email", "tel", "url"}

\* C30: when a fill request is delivered to the page context, every free-text
\* control targeted by mappings that have a resolved value holds afterwards
\* exactly the string resolved for its mapping (for the last of them in the
\* batch), and every control that no such mapping targets is as it was.
C30_TargetsHoldResolved ==
    [][(/\ chan.kind = "fillForm" /\ chan.state = "req" /\ chan' # chan
        /\ chan'.response # ChannelError("Could not establish connection"))
         => LET ms == chan.request.fieldMappings
                profile == chan.request.userData
                applied(i) == {k \in 1..Len(ms) :
                                  /\ Resolved(ms[k], profile) # Undef
                                  /\ TargetOf(dom, ms[k]) = i}
            IN \A i \in 1..Len(dom) :
                  IF applied(i) = {} THEN dom'[i] = dom[i]
                  ELSE FreeText(dom[i]) =>
                          LET last == CHOOSE k \in applied(i) : \A j \in applied(i) : j <= k
                          IN dom'[i].value = Resolved(ms[last], profile)]_vars

C30_Witness ==
    /\ pageLog.action = "fillForm" /\ chan.state = "resp"
    /\ Len(chan.request.fieldMappings) = 2
    /\ dom[2].id = "first_name" /\ dom[2].value = "Jane"
    /\ dom[3].id = "email" /\ dom[3].value = "jane@x.com"
    /\ dom[5].id = "search" /\ dom[5].value = ""

----------------------------------------------------------------------------
(* The step counter *)

\* C31: the step counter is 0 when a run starts; it changes only by +1, and
\* only when the transition pause that follows a successful advance response
\* ends (the counter then equals the number of successful advances); no
\* request is sent to the page context while the counter is above 5; a
\* counter above 5 ends the run with the informational safety-limit status
\* and the running flag cleared.
C31_StepCounter ==
    /\ [](run.outcome = "running" =>
              \/ step = run.advOk
              \/ pc = "transition" /\ run.advOk = step + 1)
    /\ [](chan.state = "req" => step <= MaxSteps)
    /\ [](step > MaxSteps =>
              /\ pc = "idle" /\ chan = NoChan /\ run.outcome = "cap"
              /\ status.type = "info" /\ status.msg = "maxSteps"
              /\ ~isProcessing)
    /\ [][/\ (run'.outcome = "running" /\ run.outcome # "running") => step' = 0
          /\ step' # step =>
                \/ step' = 0 /\ pc = "idle"
                \/ /\ step' = step + 1
                   /\ pc = "transition"
                   /\ run.stepLog[Len(run.stepLog)] = "transition"
                   /\ run.advOk = step']_vars

C31_Witness ==
    /\ step = MaxSteps + 1 /\ run.advOk = MaxSteps + 1
    /\ status = Status("info", "maxSteps", "") /\ ~isProcessing /\ pc = "idle"

----------------------------------------------------------------------------
(* Overlays that open and close between the requests                        *)

\* a first overlay with a control and a button, a background control and
\* button, and a second overlay after them with a control and a button
ScopePage(style1, style5) ==
    << Styled([Elem("div", "", "dlg", "", "", 0) EXCEPT !.modal = TRUE], style1),
       Elem("input", "text", "first_name", "first_name", "", 1),
       Button("", "Next", 1),
       Elem("input", "text", "search", "q", "", 0),
       Styled([Elem("div", "", "dlg2", "", "", 0) EXCEPT !.modal = TRUE], style5),
       Elem("input", "email", "email", "email", "", 5),
       Button("", "Continue", 5),
       Button("", "Review", 0) >>

ScopePages == { ScopePage(style1, style5) : style1, style5 \in {"shown", "displayNone"} }

ScopeInit ==
    /\ dom \in ScopePages
    /\ pageLog = NoLog
    /\ pc = "idle"
    /\ step = 0
    /\ isProcessing = FALSE
    /\ status = Status("", "", "")
    /\ apiKey = ""
    /\ envKey = ""
    /\ fieldMappings = <<>>
    /\ ansIdx = 0
    /\ chan = NoChan
    /\ run = [NewRun(FALSE) EXCEPT !.outcome = "none"]
    /\ fcall = NoCall

\* the callback of chrome.tabs.sendMessage resolves the promise; fcall.before
\* keeps the page the answered request was handled on
Received ==
    /\ chan.state = "resp"
    /\ chan' = NoChan
    /\ fcall' = [NoCall EXCEPT !.before = dom]
    /\ UNCHANGED <<dom, pageLog, pc, step, isProcessing, status, apiKey, envKey,
                   fieldMappings, ansIdx, run>>

\* the site opens or closes an overlay
OverlayToggle(page) ==
    /\ page # dom
    /\ dom' = page
    /\ UNCHANGED <<pageLog, pc, step, isProcessing, status, apiKey, envKey,
                   fieldMappings, ansIdx, chan, run, fcall>>

ScopeNext ==
    \/ AnalyzeRequest
    \/ AdvanceRequest
    \/ PageHandle
    \/ Received
    \/ \E page \in ScopePages : OverlayToggle(page)

SpecScope == ScopeInit /\ [][ScopeNext]_vars

\* the controls of the scope that an extraction pass reports
ScopeControls(d) ==
    {i \in 1..Len(d) :
        /\ d[i].tag \in {"input", "textarea", "select"}
        /\ Scope(d) = 0 \/ Scope(d) \in Ancestors(d, i)
        /\ ~NotVisible(d, i)
        /\ ~(d[i].tag = "input" /\ d[i].type \in {"hidden", "submit", "button"})}

\* C32: every analyze request and every advance request is served from the
\* overlay state the page has when the request is handled: the scope root is
\* the last visible overlay of that page (the whole page when none is open),
\* the snapshot holds exactly the controls of that scope and the control
\* activated is the first forward control of that scope, whatever the page
\* looked like when the previous request was handled.
C32_ScopeRecomputed ==
    [][(/\ chan.state = "req" /\ chan.kind \in {"analyzeForm", "clickNext"}
        /\ chan'.state = "resp" /\ chan'.response.kind # "lastError")
         => /\ pageLog'.root = Scope(dom)
            /\ chan.kind = "analyzeForm" =>
                  {chan'.response.fields[n].el : n \in 1..Len(chan'.response.fields)}
                     = ScopeControls(dom)
            /\ chan.kind = "clickNext" =>
                  pageLog'.activated
                    = IF ForwardControls(dom) = {} THEN <<>>
                      ELSE << CHOOSE i \in ForwardControls(dom) :
                                 \A j \in ForwardControls(dom) : i <= j >>]_vars

\* an advance request handled after the overlay of the analyze request closed
C32_Witness ==
    /\ pageLog.action = "clickNext" /\ chan.state = "resp"
    /\ fcall.before # <<>> /\ Scope(fcall.before) = 5
    /\ Scope(dom) = 1 /\ pageLog.root = 1 /\ pageLog.activated = <<3>>

----------------------------------------------------------------------------
(* Mapping sets *)

\* C33: a step sends at most one analyze request, makes at most one mapping
\* call and sends at most one fill request; the fill request is sent only
\* from the mapping phase of a step whose analyze response held fields, and
\* it carries exactly the mapping set the mapping call of that step returned
\* (with the answers of that step stored in its open questions); nothing of
\* the set is kept once the fill response has come.
C33_MappingSetUsedOnce ==
    /\ [](/\ CountOf(run.stepLog, "analyzeForm") <= 1
          /\ CountOf(run.stepLog, "mapCall") <= 1
          /\ CountOf(run.stepLog, "fillForm") <= 1)
    /\ [](chan.kind = "fillForm" =>
              LET sent == chan.request.fieldMappings
              IN /\ pc = "filling" /\ run.nFields > 0
                 /\ Len(run.stepLog) >= 3
                 /\ run.stepLog[1] = "analyzeForm" /\ run.stepLog[2] = "mapCall"
                 /\ run.stepLog[Len(run.stepLog)] = "fillForm"
                 /\ Len(sent) = Len(run.mapped)
                 /\ \A k \in 1..Len(sent) :
                       /\ sent[k] = [run.mapped[k] EXCEPT !.selectedValue = sent[k].selectedValue]
                       /\ sent[k].selectedValue # run.mapped[k].selectedValue
                             => /\ OpenQuestion(run.mapped[k])
                                /\ \E a \in 1..Len(run.qa) :
                                      run.qa[a].k = k /\ run.qa[a].answer = sent[k].selectedValue)
    /\ [](pc \in {"settle", "navigating", "transition", "analyzing", "idle"}
              => fieldMappings = <<>> /\ chan.request.fieldMappings = <<>>)
    /\ [][(chan'.kind = "fillForm" /\ chan.kind # "fillForm")
             => pc \in {"mapping", "answering"}]_vars

\* the fill request of the second step carries the second step's mapping set
C33_Witness ==
    /\ chan.kind = "fillForm" /\ chan.state = "req" /\ step = 1
    /\ Len(chan.request.fieldMappings) = 2
    /\ chan.request.fieldMappings[1].id = "q1"
    /\ chan.request.fieldMappings[1].selectedValue = "I love it"
    /\ run.mapped[1].selectedValue = Undef

----------------------------------------------------------------------------
(* An extraction pass followed by a fill addressed by a field's identifier  *)

\* fillFormField({ id: fields[n].id }, "Jane") on the page the snapshot was
\* taken from
FieldFill(n) ==
    /\ Extracted
    /\ fcall.phase = 0
    /\ n \in 1..Len(chan.response.fields)
    /\ called([NoMapping EXCEPT !.id = chan.response.fields[n].id], "Jane",
              fillFormField(dom, [NoMapping EXCEPT !.id = chan.response.fields[n].id], "Jane"))
    /\ UNCHANGED <<pageLog, pc, step, isProcessing, status, apiKey, envKey,
                   fieldMappings, ansIdx, chan, run>>

RoundTripNext ==
    \/ AnalyzeRequest
    \/ PageHandle
    \/ \E n \in 1..3 : FieldFill(n)

SpecRoundTrip == ExtractInit /\ [][RoundTripNext]_vars

\* C34 as stated: a fill addressed by the identifier of a field of the
\* snapshot, on the unchanged page, returns true and its target is the
\* control the field was read from, also when the identifier is the
\* positional fallback.
C34_FieldIdLocatesControl ==
    (Extracted /\ fcall.phase = 1) =>
        \A n \in 1..Len(chan.response.fields) :
            chan.response.fields[n].id = fcall.mapping.id
               => fcall.ret = "true" /\ fcall.target = chan.response.fields[n].el

----------------------------------------------------------------------------
(* The running flag *)

\* C35: the running flag is true exactly while a run is under way: from the
\* start of the run through every request, call and pause of its steps
\* (settle and transition pauses included), and false once the run has
\* stopped, whether it completed, failed or hit the safety limit; a request
\* is in flight only while the flag is true.
C35_FlagWhileRunning ==
    /\ isProcessing <=> run.outcome = "running"
    /\ isProcessing <=> pc # "idle"
    /\ run.outcome \in {"complete", "failed", "cap"} => ~isProcessing /\ chan = NoChan
    /\ chan # NoChan => isProcessing

\* the flag during a transition pause that follows a settle pause
C35_Witness ==
    /\ pc = "transition" /\ chan.kind = "transition" /\ isProcessing
    /\ run.stepLog = <<"analyzeForm", "settle", "clickNext", "transition">>

----------------------------------------------------------------------------
(* The value a fill request applies *)

\* a fill request has been answered by the page context
FillAnswered ==
    /\ pageLog.action = "fillForm"
    /\ chan.kind = "fillForm" /\ chan.state = "resp" /\ chan.response.kind = "fill"

\* C36 as stated: while a fill request is handled, every call of fill made
\* for a mapping passes the mapping's resolved value (its selected value when
\* non-empty, else the profile value of its slot); a mapping with no resolved
\* value gets no call, and the count reported does not exceed the number of
\* mappings that have one.
C36_ResolvedValueApplied ==
    FillAnswered =>
        LET ms == chan.request.fieldMappings
            profile == chan.request.userData
            callsOf(k) == {n \in 1..Len(pageLog.calls) : pageLog.calls[n].k = k}
        IN /\ \A k \in 1..Len(ms) :
                 IF Resolved(ms[k], profile) = Undef THEN callsOf(k) = {}
                 ELSE /\ callsOf(k) # {}
                      /\ \A n \in callsOf(k) :
                            pageLog.calls[n].value = Resolved(ms[k], profile)
           /\ chan.response.filledCount
                 <= Cardinality({k \in 1..Len(ms) : Resolved(ms[k], profile) # Undef})

----------------------------------------------------------------------------
(* One step with mappings that address controls the snapshot does not hold  *)

\* Scenario A with the email control of the dialog shown or hidden
StalePage(style3) == [DialogPage("Next") EXCEPT ![3] = Styled(@, style3)]

StalePool ==
    { Mapping("first_name", "firstName", Undef, Undef, Undef),
      Mapping("search", "firstName", Undef, Undef, Undef),
      [Mapping(Undef, Undef, "jobs", Undef, Undef) EXCEPT !.name = "q"],
      Mapping("email", "email", Undef, Undef, Undef),
      Mapping("ghost", "email", Undef, Undef, Undef) }

\* a run of the driver right after processFormStep(tabId, 0) sent its
\* analyze request
StepInit ==
    /\ dom \in {StalePage("shown"), StalePage("hidden")}
    /\ pageLog = NoLog
    /\ pc = "analyzing"
    /\ step = 0
    /\ isProcessing = TRUE
    /\ status = Status("info", "analyzing", "1")
    /\ apiKey = ""
    /\ envKey = "env-key"
    /\ fieldMappings = <<>>
    /\ ansIdx = 0
    /\ chan = Request("analyzeForm", <<>>)
    /\ run = [NewRun(TRUE) EXCEPT !.issued = TRUE, !.stepLog = <<"analyzeForm">>]
    /\ fcall = NoCall

StepNext ==
    \/ PageHandle
    \/ AnalyzeResponse
    \/ \E ms \in SeqsUpTo(StalePool, MaxMappings) :
          MapReturn([kind |-> "array", mappings |-> ms])

SpecStep == StepInit /\ [][StepNext]_vars

\* the mapping addresses a control by an identifier or name that no field of
\* the snapshot of the page carries
NotInSnapshot(d, m) ==
    \A i \in ScopeControls(d) :
        /\ ~(Truthy(m.id) /\ d[i].id = m.id)
        /\ ~(Truthy(m.name) /\ d[i].name = m.name)

----------------------------------------------------------------------------
(* Answers of the answer collaborator as fill values *)

\* the mappings of the answered fill request that carry an answer of this
\* step and whose target is on the page
AnsweredLocated ==
    {k \in 1..Len(chan.request.fieldMappings) :
        /\ \E a \in 1..Len(run.qa) : run.qa[a].k = k
        /\ TargetOf(dom, chan.request.fieldMappings[k]) # 0}

\* the answer is the fill value and, the target being a free-text control,
\* ends up in it (the answer of the last mapping of the request that targets
\* the control), sentinels included
C38_AnswerWritten ==
    FillAnswered =>
        /\ \A a \in 1..Len(run.qa) :
              /\ chan.request.fieldMappings[run.qa[a].k].selectedValue = run.qa[a].answer
              /\ run.qa[a].failed => run.qa[a].answer = "[ERROR]"
        /\ \A k \in AnsweredLocated :
              LET ms == chan.request.fieldMappings
                  t == TargetOf(dom, ms[k])
                  same == {j \in 1..Len(ms) :
                             /\ TargetOf(dom, ms[j]) = t
                             /\ Resolved(ms[j], chan.request.userData) # Undef}
              IN /\ \E n \in 1..Len(pageLog.calls) :
                       /\ pageLog.calls[n].k = k /\ pageLog.calls[n].ret = "true"
                       /\ pageLog.calls[n].value = ms[k].selectedValue
                 /\ FreeText(dom[t]) =>
                       dom[t].value = ms[CHOOSE j \in same : \A i \in same : i <= j].selectedValue

\* C38 as stated: the answer returned for an open-ended question, sentinels
\* included, is the value of the mapping in the fill request; when the target
\* is located the text is written into the control and the mapping is counted
\* in the filledCount of the response.
C38_AnswerWrittenAndCounted ==
    /\ C38_AnswerWritten
    /\ FillAnswered => chan.response.filledCount >= Cardinality(AnsweredLocated)

----------------------------------------------------------------------------
(* Checkboxes and radio groups *)

\* C39: after a call whose target is a checkbox, the box is checked if and
\* only if the value is the boolean true or the string "true"; with any other
\* value it is unchecked, whatever it was before; the call returns true and
\* no other control changes.
C39_CheckedIffTrue ==
    (fcall.phase = 1 /\ fcall.target # 0 /\ fcall.before[fcall.target].type = "checkbox") =>
        /\ fcall.first[fcall.target].checked <=> fcall.value \in {"true", JSTrue}
        /\ fcall.ret = "true"
        /\ \A j \in (1..Len(fcall.before)) \ {fcall.target} : fcall.first[j] = fcall.before[j]

\* a checked box cleared by a value that differs from "true" only in case
C39_Witness ==
    /\ fcall.phase = 1 /\ fcall.mapping.id = "agree" /\ fcall.value = "True"
    /\ fcall.before[3].checked /\ ~fcall.first[3].checked

\* the radios that share the name of radio r, r included
SameNamed(d, r) == GroupOf(d, r) \cup {r}

\* C40: after a call with a string value whose target is a radio, the call
\* returns true; the radio of the target's group whose value equals the value
\* ignoring case is the checked one of the group, whichever member was the
\* target; when no member's value matches, every radio of the group is
\* checked or not as before; no control outside the group changes.
C40_MatchingRadioChecked ==
    (/\ fcall.phase = 1 /\ fcall.target # 0 /\ IsString(fcall.value)
     /\ fcall.before[fcall.target].type = "radio") =>
        LET grp == SameNamed(fcall.before, fcall.target)
            match == {j \in grp : EqualIgnoringCase(fcall.before[j].value, fcall.value)}
        IN /\ fcall.ret = "true"
           /\ \A j \in grp :
                 fcall.first[j].checked
                    <=> IF match = {} THEN fcall.before[j].checked ELSE j \in match
           /\ \A j \in (1..Len(fcall.before)) \ grp : fcall.first[j] = fcall.before[j]

\* the target is the second radio, the value matches the first
C40_Witness ==
    /\ fcall.phase = 1 /\ fcall.mapping.id = "r2" /\ fcall.target = 5
    /\ fcall.value = "male"
    /\ fcall.before[5].checked /\ ~fcall.first[5].checked /\ fcall.first[4].checked

====
